---- MODULE Spec2Model ----
(***************************************************************************)
(* Model of the pleme-brazilian-validators crate: the CPF, CNPJ, CEP and   *)
(* phone validators and the PIX key dispatcher.                            *)
(*                                                                         *)
(* A Rust string is modelled as a sequence of characters.  An ASCII        *)
(* character is the one-character TLA+ string; a non-ASCII character is    *)
(* named by its code point ("U+0663").  Byte offsets, which Rust uses to   *)
(* slice strings, are computed from the UTF-8 length of each character.    *)
(***************************************************************************)
EXTENDS Integers, Sequences, FiniteSets, TLC

\* input, op, out: the argument, the operation and the result of the call
\* a single-threaded caller makes.
\* statics: the lazily initialized patterns of the PIX module, shared by the
\* whole process.
\* threads: the calls that concurrent threads have in progress.
VARIABLES input, op, out, statics, threads

vars == <<input, op, out, statics, threads>>

----------------------------------------------------------------------------
(* Characters *)

AsciiDigitSeq == <<"0", "1", "2", "3", "4", "5", "6", "7", "8", "9">>

LowerSeq ==
    <<"a", "b", "c", "d", "e", "f", "g", "h", "i", "j", "k", "l", "m",
      "n", "o", "p", "q", "r", "s", "t", "u", "v", "w", "x", "y", "z">>

UpperSeq ==
    <<"A", "B", "C", "D", "E", "F", "G", "H", "I", "J", "K", "L", "M",
      "N", "O", "P", "Q", "R", "S", "T", "U", "V", "W", "X", "Y", "Z">>

Range(f) == {f[i] : i \in DOMAIN f}

AsciiDigits == Range(AsciiDigitSeq)
AsciiLower == Range(LowerSeq)
AsciiUpper == Range(UpperSeq)

\* Non-ASCII decimal digits (general category Nd): ARABIC-INDIC DIGIT THREE
\* (2 bytes in UTF-8) and DEVANAGARI DIGIT THREE (3 bytes in UTF-8).
ArabicIndicThree == "U+0663"
DevanagariThree == "U+0969"
\* NO-BREAK SPACE: non-ASCII, has the White_Space property (2 bytes).
NoBreakSpace == "U+00A0"

\* char::is_ascii_digit
is_ascii_digit(c) == c \in AsciiDigits

\* char::to_digit(10): defined on the ASCII digits only.
to_digit(c) == CHOOSE n \in 0..9 : AsciiDigitSeq[n + 1] = c

\* The regex crate's \d in its default (Unicode) mode: any Nd character.
UnicodeDigits == AsciiDigits \cup {ArabicIndicThree, DevanagariThree}

\* char::is_whitespace, as used by str::trim.
WhiteSpace == {" ", "\t", "\n", NoBreakSpace}

\* Length of the UTF-8 encoding of a character.
Utf8Len(c) ==
    IF c = DevanagariThree THEN 3
    ELSE IF c \in {ArabicIndicThree, NoBreakSpace} THEN 2
    ELSE 1

\* char::to_lowercase on the characters of the model.
LowerOf(c) ==
    IF c \in AsciiUpper
    THEN LowerSeq[CHOOSE i \in 1..26 : UpperSeq[i] = c]
    ELSE c

----------------------------------------------------------------------------
(* Strings *)

Min(a, b) == IF a < b THEN a ELSE b

\* a filter that removes in place while it iterates, and so steps over the
\* character that follows each one it removes
RECURSIVE Filter_SkipAfterRemoval(_, _)
Filter_SkipAfterRemoval(s, keep) ==
    IF s = <<>> THEN <<>>
    ELSE IF Head(s) \in keep
    THEN <<Head(s)>> \o Filter_SkipAfterRemoval(Tail(s), keep)
    ELSE IF Tail(s) = <<>> THEN <<>>
    ELSE <<Head(Tail(s))>> \o Filter_SkipAfterRemoval(Tail(Tail(s)), keep)

\* Iterator::filter(...).collect::<String>()
RECURSIVE Filter(_, _)
Filter(s, keep) ==
    IF s = <<>> THEN <<>>
    ELSE IF Head(s) \in keep THEN <<Head(s)>> \o Filter(Tail(s), keep)
    ELSE Filter(Tail(s), keep)

\* str::len: the length in bytes.
RECURSIVE ByteLen(_)
ByteLen(s) == IF s = <<>> THEN 0 ELSE Utf8Len(Head(s)) + ByteLen(Tail(s))

\* Byte offset at which the i-th character starts (i = Len(s)+1: the end).
ByteOffset(s, i) == ByteLen(SubSeq(s, 1, i - 1))

\* str::is_char_boundary
is_char_boundary(s, b) == \E i \in 1..(Len(s) + 1) : ByteOffset(s, i) = b

\* &s[a..b] succeeds only when both offsets are character boundaries in
\* range and a <= b; otherwise the index operation panics.
CanSlice(s, a, b) ==
    /\ a <= b
    /\ is_char_boundary(s, a)
    /\ is_char_boundary(s, b)

\* The value of &s[a..b] when it does not panic.
Slice(s, a, b) ==
    LET i == CHOOSE k \in 1..(Len(s) + 1) : ByteOffset(s, k) = a
        j == CHOOSE k \in 1..(Len(s) + 1) : ByteOffset(s, k) = b
    IN  SubSeq(s, i, j - 1)

\* str::starts_with
starts_with(s, p) == Len(s) >= Len(p) /\ SubSeq(s, 1, Len(p)) = p

\* str::trim: removes leading and trailing White_Space characters.
RECURSIVE TrimStart(_)
TrimStart(s) ==
    IF s # <<>> /\ Head(s) \in WhiteSpace THEN TrimStart(Tail(s)) ELSE s

RECURSIVE TrimEnd(_)
TrimEnd(s) ==
    IF s # <<>> /\ s[Len(s)] \in WhiteSpace
    THEN TrimEnd(SubSeq(s, 1, Len(s) - 1))
    ELSE s

trim(s) == TrimEnd(TrimStart(s))

\* str::to_lowercase
to_lowercase(s) == [i \in 1..Len(s) |-> LowerOf(s[i])]

----------------------------------------------------------------------------
(* error.rs: ValidationResult and BrazilianValidationError *)

Result(t, v, e, a, d) ==
    [tag |-> t, val |-> v, expected |-> e, actual |-> a, detail |-> d]

Ok(v) == Result("Ok", v, 0, 0, "")
InvalidLength(e, a) == Result("InvalidLength", <<>>, e, a, "")
InvalidCharacters == Result("InvalidCharacters", <<>>, 0, 0, "")
InvalidCheckDigits(doc) == Result("InvalidCheckDigits", <<>>, 0, 0, doc)
invalid_cpf(msg) == Result("InvalidCpf", <<>>, 0, 0, msg)
invalid_cnpj(msg) == Result("InvalidCnpj", <<>>, 0, 0, msg)
invalid_cep(msg) == Result("InvalidCep", <<>>, 0, 0, msg)
invalid_phone(msg, what) == Result("InvalidPhone", what, 0, 0, msg)
invalid_pix_key(msg) == Result("InvalidPixKey", <<>>, 0, 0, msg)

\* A process-terminating fault (a Rust panic) instead of a returned value.
Panic == Result("Panic", <<>>, 0, 0, "")

\* A function that returns a String either returns it or panics.
Returned(v) == Result("Returned", v, 0, 0, "")

\* No call has been made yet.
NoResult == Result("none", <<>>, 0, 0, "")

----------------------------------------------------------------------------
(* cpf.rs *)

\* n copies of the character c
Repeat(c, n) == [i \in 1..n |-> c]

INVALID_CPFS == [k \in 1..10 |-> Repeat(AsciiDigitSeq[k], 11)]

\* cpf_normalize keeping every decimal digit, as the recognizers' \d does
cpf_normalize_UnicodeDigits(cpf) == Filter(cpf, UnicodeDigits)

cpf_normalize(cpf) == Filter(cpf, AsciiDigits)

\* sum of digits[i] * weights[i] over the first n digits
RECURSIVE WeightedSum(_, _, _)
WeightedSum(digits, weights, n) ==
    IF n = 0 THEN 0
    ELSE digits[n] * weights[n] + WeightedSum(digits, weights, n - 1)

\* Mod11Check with the threshold off by one: a remainder of 1 gives 10
Mod11Check_LessThan1(sum) == IF sum % 11 < 1 THEN 0 ELSE 11 - (sum % 11)

\* the modulo-11 rule both check digits use
Mod11Check(sum) == IF sum % 11 < 2 THEN 0 ELSE 11 - (sum % 11)

\* chars().filter_map(|c| c.to_digit(10)).collect::<Vec<u32>>()
DigitsOf(s) ==
    LET ds == Filter(s, AsciiDigits)
    IN  [i \in 1..Len(ds) |-> to_digit(ds[i])]

\* for i in 0..9: digits[i] * (10 - i)
CpfWeights1 == [k \in 1..9 |-> 10 - (k - 1)]
\* for i in 0..10: digits[i] * (11 - i)
CpfWeights2 == [k \in 1..10 |-> 11 - (k - 1)]

\* cpf_validate_check_digits with the second sum taken over the nine base
\* digits only, leaving out the first check digit
cpf_validate_check_digits_NoCheck1InSum2(cpf) ==
    LET digits == DigitsOf(cpf)
    IN  IF Len(digits) # 11 THEN FALSE
        ELSE LET check1 == Mod11Check(WeightedSum(digits, CpfWeights1, 9))
             IN  IF check1 # digits[10] THEN FALSE
                 ELSE LET check2 ==
                              Mod11Check(WeightedSum(digits, CpfWeights2, 9))
                      IN  check2 = digits[11]

cpf_validate_check_digits(cpf) ==
    LET digits == DigitsOf(cpf)
    IN  IF Len(digits) # 11 THEN FALSE
        ELSE LET check1 == Mod11Check(WeightedSum(digits, CpfWeights1, 9))
             IN  IF check1 # digits[10] THEN FALSE
                 ELSE LET check2 ==
                              Mod11Check(WeightedSum(digits, CpfWeights2, 10))
                      IN  check2 = digits[11]

\* cpf_validate without the lookup in INVALID_CPFS
cpf_validate_NoRepeatedCheck(cpf) ==
    LET cleaned == cpf_normalize(cpf)
    IN  IF ByteLen(cleaned) # 11
        THEN InvalidLength(11, ByteLen(cleaned))
        ELSE IF ~(\A i \in 1..Len(cleaned) : is_ascii_digit(cleaned[i]))
        THEN InvalidCharacters
        ELSE IF ~cpf_validate_check_digits(cleaned)
        THEN InvalidCheckDigits("CPF")
        ELSE Ok(cleaned)

cpf_validate(cpf) ==
    LET cleaned == cpf_normalize(cpf)
    IN  IF ByteLen(cleaned) # 11
        THEN InvalidLength(11, ByteLen(cleaned))
        ELSE IF ~(\A i \in 1..Len(cleaned) : is_ascii_digit(cleaned[i]))
        THEN InvalidCharacters
        ELSE IF cleaned \in Range(INVALID_CPFS)
        THEN invalid_cpf("sequencia de digitos repetidos")
        ELSE IF ~cpf_validate_check_digits(cleaned)
        THEN InvalidCheckDigits("CPF")
        ELSE Ok(cleaned)

\* cpf_format returning the digits it kept when there are not 11 of them
cpf_format_ReturnsCleaned(cpf) ==
    LET cleaned == cpf_normalize(cpf)
    IN  IF ByteLen(cleaned) = 11
        THEN Returned(Slice(cleaned, 0, 3) \o <<".">> \o Slice(cleaned, 3, 6)
                      \o <<".">> \o Slice(cleaned, 6, 9) \o <<"-">>
                      \o Slice(cleaned, 9, 11))
        ELSE Returned(cleaned)

\* cpf::format; the slices are taken of ASCII digits and cannot fail
cpf_format(cpf) ==
    LET cleaned == cpf_normalize(cpf)
    IN  IF ByteLen(cleaned) = 11
        THEN Returned(Slice(cleaned, 0, 3) \o <<".">> \o Slice(cleaned, 3, 6)
                      \o <<".">> \o Slice(cleaned, 6, 9) \o <<"-">>
                      \o Slice(cleaned, 9, 11))
        ELSE Returned(cpf)

----------------------------------------------------------------------------
(* cnpj.rs *)

INVALID_CNPJS == [k \in 1..10 |-> Repeat(AsciiDigitSeq[k], 14)]

cnpj_normalize(cnpj) == Filter(cnpj, AsciiDigits)

weights1 == <<5, 4, 3, 2, 9, 8, 7, 6, 5, 4, 3, 2>>
\* weights2 with its last two entries run together: the first check digit
\* is weighted 3 instead of 2
weights2_LastWeight3 == <<6, 5, 4, 3, 2, 9, 8, 7, 6, 5, 4, 3, 3>>
weights2 == <<6, 5, 4, 3, 2, 9, 8, 7, 6, 5, 4, 3, 2>>

cnpj_validate_check_digits(cnpj) ==
    LET digits == DigitsOf(cnpj)
    IN  IF Len(digits) # 14 THEN FALSE
        ELSE LET check1 == Mod11Check(WeightedSum(digits, weights1, 12))
             IN  IF check1 # digits[13] THEN FALSE
                 ELSE LET check2 ==
                              Mod11Check(WeightedSum(digits, weights2, 13))
                      IN  check2 = digits[14]

cnpj_validate(cnpj) ==
    LET cleaned == cnpj_normalize(cnpj)
    IN  IF ByteLen(cleaned) # 14
        THEN InvalidLength(14, ByteLen(cleaned))
        ELSE IF ~(\A i \in 1..Len(cleaned) : is_ascii_digit(cleaned[i]))
        THEN InvalidCharacters
        ELSE IF cleaned \in Range(INVALID_CNPJS)
        THEN invalid_cnpj("sequencia de digitos repetidos")
        ELSE IF ~cnpj_validate_check_digits(cleaned)
        THEN InvalidCheckDigits("CNPJ")
        ELSE Ok(cleaned)

\* cnpj_format with the branch group cut one digit short
cnpj_format_ShortBranch(cnpj) ==
    LET cleaned == cnpj_normalize(cnpj)
    IN  IF ByteLen(cleaned) = 14
        THEN Returned(Slice(cleaned, 0, 2) \o <<".">> \o Slice(cleaned, 2, 5)
                      \o <<".">> \o Slice(cleaned, 5, 8) \o <<"/">>
                      \o Slice(cleaned, 8, 11) \o <<"-">>
                      \o Slice(cleaned, 12, 14))
        ELSE Returned(cnpj)

\* cnpj::format
cnpj_format(cnpj) ==
    LET cleaned == cnpj_normalize(cnpj)
    IN  IF ByteLen(cleaned) = 14
        THEN Returned(Slice(cleaned, 0, 2) \o <<".">> \o Slice(cleaned, 2, 5)
                      \o <<".">> \o Slice(cleaned, 5, 8) \o <<"/">>
                      \o Slice(cleaned, 8, 12) \o <<"-">>
                      \o Slice(cleaned, 12, 14))
        ELSE Returned(cnpj)

----------------------------------------------------------------------------
(* cep.rs *)

cep_normalize(cep) == Filter(cep, AsciiDigits)

\* cep_validate rejecting every repeated-digit value, as the tax-ID
\* validators do
cep_validate_RejectsRepeated(cep) ==
    LET cleaned == cep_normalize(cep)
    IN  IF ByteLen(cleaned) # 8
        THEN InvalidLength(8, ByteLen(cleaned))
        ELSE IF ~(\A i \in 1..Len(cleaned) : is_ascii_digit(cleaned[i]))
        THEN InvalidCharacters
        ELSE IF \E c \in AsciiDigits : cleaned = Repeat(c, 8)
        THEN invalid_cep("CEP invalido")
        ELSE Ok(cleaned)

cep_validate(cep) ==
    LET cleaned == cep_normalize(cep)
    IN  IF ByteLen(cleaned) # 8
        THEN InvalidLength(8, ByteLen(cleaned))
        ELSE IF ~(\A i \in 1..Len(cleaned) : is_ascii_digit(cleaned[i]))
        THEN InvalidCharacters
        ELSE IF cleaned = Repeat("0", 8)
        THEN invalid_cep("CEP invalido")
        ELSE Ok(cleaned)

\* cep::format
cep_format(cep) ==
    LET cleaned == cep_normalize(cep)
    IN  IF ByteLen(cleaned) = 8
        THEN Returned(Slice(cleaned, 0, 5) \o <<"-">> \o Slice(cleaned, 5, 8))
        ELSE Returned(cep)

----------------------------------------------------------------------------
(* phone.rs *)

\* the two-character string of a number in 0..99
TwoDigits(n) == <<AsciiDigitSeq[(n \div 10) + 1], AsciiDigitSeq[(n % 10) + 1]>>

VALID_DDDS ==
    [k \in 1..67 |->
        TwoDigits(<<11, 12, 13, 14, 15, 16, 17, 18, 19,
                    21, 22, 24, 27, 28,
                    31, 32, 33, 34, 35, 37, 38,
                    41, 42, 43, 44, 45, 46,
                    47, 48, 49,
                    51, 53, 54, 55,
                    61, 62, 63, 64, 65, 66, 67, 68, 69,
                    71, 73, 74, 75, 77, 79,
                    81, 82, 83, 84, 85, 86, 87, 88, 89,
                    91, 92, 93, 94, 95, 96, 97, 98, 99>>[k])]

phone_normalize(phone) == Filter(phone, AsciiDigits \cup {"+"})

\* the country-code prefix removal shared by validate, format, is_mobile,
\* is_landline, extract_ddd and mask: the byte offset the national number
\* starts at
\* CountryPrefixLen removing a leading "55" whatever the length
CountryPrefixLen_Always55(cleaned) ==
    IF starts_with(cleaned, <<"+", "5", "5">>) THEN 3
    ELSE IF starts_with(cleaned, <<"5", "5">>) THEN 2
    ELSE 0

CountryPrefixLen(cleaned) ==
    IF starts_with(cleaned, <<"+", "5", "5">>) THEN 3
    ELSE IF starts_with(cleaned, <<"5", "5">>) /\ ByteLen(cleaned) > 11 THEN 2
    ELSE 0

phone_validate(phone) ==
    LET cleaned == phone_normalize(phone)
        start == CountryPrefixLen(cleaned)
    IN  IF ~CanSlice(cleaned, start, ByteLen(cleaned)) THEN Panic
        ELSE
        LET without_country == Slice(cleaned, start, ByteLen(cleaned))
            n == ByteLen(without_country)
        IN  IF n < 10 \/ n > 11
            THEN InvalidLength(10, n)
            ELSE IF ~CanSlice(without_country, 0, 2) THEN Panic
            ELSE IF Slice(without_country, 0, 2) \notin Range(VALID_DDDS)
            THEN invalid_phone("DDD invalido", Slice(without_country, 0, 2))
            ELSE IF ~CanSlice(without_country, 2, n) THEN Panic
            ELSE IF n = 11
                    /\ ~starts_with(Slice(without_country, 2, n), <<"9">>)
            THEN invalid_phone("celular deve comecar com 9", <<>>)
            ELSE Ok(<<"+", "5", "5">> \o without_country)

\* phone::format; cleaned holds ASCII digits and '+' only, so the slices
\* cannot fail
phone_format(phone) ==
    LET cleaned == phone_normalize(phone)
        skip == CountryPrefixLen(cleaned)
        prefix == IF skip > 0 THEN <<"+", "5", "5", " ">> ELSE <<>>
        number == Slice(cleaned, skip, ByteLen(cleaned))
    IN  IF ByteLen(number) = 11
        THEN Returned(prefix \o <<"(">> \o Slice(number, 0, 2) \o <<")", " ">>
                      \o Slice(number, 2, 7) \o <<"-">>
                      \o Slice(number, 7, 11))
        ELSE IF ByteLen(number) = 10
        THEN Returned(prefix \o <<"(">> \o Slice(number, 0, 2) \o <<")", " ">>
                      \o Slice(number, 2, 6) \o <<"-">>
                      \o Slice(number, 6, 10))
        ELSE Returned(phone)

\* phone::mask
phone_mask(phone) ==
    LET cleaned == phone_normalize(phone)
        skip == CountryPrefixLen(cleaned)
        without_country == Slice(cleaned, skip, ByteLen(cleaned))
    IN  IF ByteLen(without_country) = 11
        THEN Returned(<<"(">> \o Slice(without_country, 0, 2)
                      \o <<")", " ", "*", "*", "*", "*", "*", "-">>
                      \o Slice(without_country, 7, 11))
        ELSE IF ByteLen(without_country) = 10
        THEN Returned(<<"(">> \o Slice(without_country, 0, 2)
                      \o <<")", " ", "*", "*", "*", "*", "-">>
                      \o Slice(without_country, 6, 10))
        ELSE Returned(phone)

----------------------------------------------------------------------------
(* pix.rs *)

\* A pattern is a sequence of items; an item matches between min and max
\* consecutive characters of the class cls (max = -1: no upper limit).
\* Every pattern of the crate is anchored at both ends (^...$).
Item(cls, lo, hi) == [cls |-> cls, min |-> lo, max |-> hi]
Lit(c) == Item({c}, 1, 1)
Opt(c) == Item({c}, 0, 1)

\* does the pattern, from item k on, match the string from position i to
\* its end?
RECURSIVE MatchFrom(_, _, _, _)
MatchFrom(re, k, s, i) ==
    IF k > Len(re) THEN i = Len(s) + 1
    ELSE LET rest == Len(s) - i + 1
             hi == IF re[k].max < 0 THEN rest ELSE Min(re[k].max, rest)
         IN  \E n \in re[k].min..hi :
                 /\ \A j \in i..(i + n - 1) : s[j] \in re[k].cls
                 /\ MatchFrom(re, k + 1, s, i + n)

\* Regex::is_match
is_match(re, s) == MatchFrom(re, 1, s, 1)

\* the CPF pattern without its end anchor: any characters may follow the
\* 11 digits
CPF_REGEX_NoEndAnchor ==
    << Item(UnicodeDigits, 3, 3), Opt("."), Item(UnicodeDigits, 3, 3),
       Opt("."), Item(UnicodeDigits, 3, 3), Opt("-"),
       Item(UnicodeDigits, 2, 2),
       Item(UnicodeDigits \cup AsciiLower \cup AsciiUpper \cup WhiteSpace
                \cup {".", "-", "/", "+", "@", "_", "%"}, 0, -1) >>

\* ^\d{3}\.?\d{3}\.?\d{3}-?\d{2}$
CPF_REGEX ==
    << Item(UnicodeDigits, 3, 3), Opt("."), Item(UnicodeDigits, 3, 3),
       Opt("."), Item(UnicodeDigits, 3, 3), Opt("-"),
       Item(UnicodeDigits, 2, 2) >>

\* ^\d{2}\.?\d{3}\.?\d{3}/?\d{4}-?\d{2}$
CNPJ_REGEX ==
    << Item(UnicodeDigits, 2, 2), Opt("."), Item(UnicodeDigits, 3, 3),
       Opt("."), Item(UnicodeDigits, 3, 3), Opt("/"),
       Item(UnicodeDigits, 4, 4), Opt("-"), Item(UnicodeDigits, 2, 2) >>

\* ^[a-zA-Z0-9._%+-]+@[a-zA-Z0-9.-]+\.[a-zA-Z]{2,}$
EMAIL_REGEX ==
    << Item(AsciiLower \cup AsciiUpper \cup AsciiDigits
                \cup {".", "_", "%", "+", "-"}, 1, -1),
       Lit("@"),
       Item(AsciiLower \cup AsciiUpper \cup AsciiDigits \cup {".", "-"}, 1, -1),
       Lit("."),
       Item(AsciiLower \cup AsciiUpper, 2, -1) >>

\* PIX_PHONE_REGEX with the national number's length relaxed to the Phone
\* Engine's 10 or 11 digits
PIX_PHONE_REGEX_TenOrEleven ==
    << Lit("+"), Lit("5"), Lit("5"), Item(UnicodeDigits, 10, 11) >>

\* ^\+55\d{11}$
PIX_PHONE_REGEX ==
    << Lit("+"), Lit("5"), Lit("5"), Item(UnicodeDigits, 11, 11) >>

\* [0-9a-f]
HexDigits == AsciiDigits \cup {"a", "b", "c", "d", "e", "f"}

\* ^[0-9a-f]{8}-[0-9a-f]{4}-[0-9a-f]{4}-[0-9a-f]{4}-[0-9a-f]{12}$
RANDOM_KEY_REGEX ==
    << Item(HexDigits, 8, 8), Lit("-"), Item(HexDigits, 4, 4), Lit("-"),
       Item(HexDigits, 4, 4), Lit("-"), Item(HexDigits, 4, 4), Lit("-"),
       Item(HexDigits, 12, 12) >>

is_cpf_format(key) == is_match(CPF_REGEX, key)
is_cnpj_format(key) == is_match(CNPJ_REGEX, key)
is_email_format(key) == is_match(EMAIL_REGEX, key)
is_phone_format(key) == is_match(PIX_PHONE_REGEX, key)
is_random_key_format(key) == is_match(RANDOM_KEY_REGEX, to_lowercase(key))

\* The patterns are lazy statics: each is compiled by the first thread that
\* dereferences it, while any other thread that dereferences it waits, and
\* is only read from then on.
RegexNames ==
    {"CPF_REGEX", "CNPJ_REGEX", "EMAIL_REGEX", "PIX_PHONE_REGEX",
     "RANDOM_KEY_REGEX"}

\* Regex::new(...).unwrap() of each static
Compile(name) ==
    CASE name = "CPF_REGEX" -> CPF_REGEX
      [] name = "CNPJ_REGEX" -> CNPJ_REGEX
      [] name = "EMAIL_REGEX" -> EMAIL_REGEX
      [] name = "PIX_PHONE_REGEX" -> PIX_PHONE_REGEX
      [] name = "RANDOM_KEY_REGEX" -> RANDOM_KEY_REGEX

\* the cell of a lazy static: not yet initialized, being initialized by the
\* thread owner, or holding its value
Uninitialized == [state |-> "uninit", owner |-> 0, value |-> <<>>]
Initializing(t) == [state |-> "running", owner |-> t, value |-> <<>>]
Initialized(name) == [state |-> "ready", owner |-> 0, value |-> Compile(name)]

\* a dereference that does not wait for the initializer: the cell is read
\* as soon as its initialization has begun
LazyReadable_Unsynchronized(cell) == cell.state # "uninit"

\* a dereference returns only once the cell holds its value
LazyReadable(cell) == cell.state = "ready"

\* the order in which validate, detect_type, validate_with_type and mask
\* consult the patterns, and the order in which normalize does
RecognizerChain ==
    <<"CPF_REGEX", "CNPJ_REGEX", "EMAIL_REGEX", "PIX_PHONE_REGEX",
      "RANDOM_KEY_REGEX">>
NormalizeChain ==
    <<"CPF_REGEX", "CNPJ_REGEX", "EMAIL_REGEX", "RANDOM_KEY_REGEX">>

\* the string a pattern is matched against: the random-key recognizer
\* lowercases the key first
Subject(name, key) ==
    IF name = "RANDOM_KEY_REGEX" THEN to_lowercase(key) ELSE key

\* the patterns a call dereferences on a key: those of its chain up to the
\* first that matches
Consulted(chain, key) ==
    {chain[i] : i \in {j \in 1..Len(chain) :
        \A k \in 1..(j - 1) :
            ~is_match(Compile(chain[k]), Subject(chain[k], key))}}

\* the statics after a call dereferenced the patterns in names
ForcedBy(cells, names) ==
    [n \in RegexNames |->
        IF n \in names /\ cells[n].state = "uninit" THEN Initialized(n)
        ELSE cells[n]]

\* Option<PixKeyType>
Some(t) == Result("Some", t, 0, 0, "")
None == Result("None", <<>>, 0, 0, "")

\* pix_validate trying the next recognizers when the tax-ID validator
\* rejects the key
pix_validate_FallThrough(key0) ==
    LET key == trim(key0)
    IN  IF is_cpf_format(key) /\ cpf_validate(key).tag = "Ok" THEN Ok(<<>>)
        ELSE IF is_cnpj_format(key) /\ cnpj_validate(key).tag = "Ok"
        THEN Ok(<<>>)
        ELSE IF is_email_format(key) THEN Ok(<<>>)
        ELSE IF is_phone_format(key) THEN Ok(<<>>)
        ELSE IF is_random_key_format(key) THEN Ok(<<>>)
        ELSE invalid_pix_key("formato nao reconhecido")

\* pix_validate handing a phone-shaped key to the Phone Engine's validator
pix_validate_PhoneChecked(key0) ==
    LET key == trim(key0)
    IN  IF is_cpf_format(key)
        THEN IF cpf_validate(key).tag # "Ok" THEN cpf_validate(key)
             ELSE Ok(<<>>)
        ELSE IF is_cnpj_format(key)
        THEN IF cnpj_validate(key).tag # "Ok" THEN cnpj_validate(key)
             ELSE Ok(<<>>)
        ELSE IF is_email_format(key) THEN Ok(<<>>)
        ELSE IF is_phone_format(key)
        THEN IF phone_validate(key).tag # "Ok" THEN phone_validate(key)
             ELSE Ok(<<>>)
        ELSE IF is_random_key_format(key) THEN Ok(<<>>)
        ELSE invalid_pix_key("formato nao reconhecido")

\* Ok(()) carries the empty value
pix_validate(key0) ==
    LET key == trim(key0)
    IN  IF is_cpf_format(key)
        THEN IF cpf_validate(key).tag # "Ok" THEN cpf_validate(key)
             ELSE Ok(<<>>)
        ELSE IF is_cnpj_format(key)
        THEN IF cnpj_validate(key).tag # "Ok" THEN cnpj_validate(key)
             ELSE Ok(<<>>)
        ELSE IF is_email_format(key) THEN Ok(<<>>)
        ELSE IF is_phone_format(key) THEN Ok(<<>>)
        ELSE IF is_random_key_format(key) THEN Ok(<<>>)
        ELSE invalid_pix_key("formato nao reconhecido")

\* pix_detect_type applied to the key as given, without trimming it
pix_detect_type_NoTrim(key0) ==
    LET key == key0
    IN  IF is_cpf_format(key) THEN Some("Cpf")
        ELSE IF is_cnpj_format(key) THEN Some("Cnpj")
        ELSE IF is_email_format(key) THEN Some("Email")
        ELSE IF is_phone_format(key) THEN Some("Phone")
        ELSE IF is_random_key_format(key) THEN Some("Random")
        ELSE None

pix_detect_type(key0) ==
    LET key == trim(key0)
    IN  IF is_cpf_format(key) THEN Some("Cpf")
        ELSE IF is_cnpj_format(key) THEN Some("Cnpj")
        ELSE IF is_email_format(key) THEN Some("Email")
        ELSE IF is_phone_format(key) THEN Some("Phone")
        ELSE IF is_random_key_format(key) THEN Some("Random")
        ELSE None

\* pix_validate_with_type without its phone branch
pix_validate_with_type_NoPhone(key0) ==
    LET key == trim(key0)
    IN  IF is_cpf_format(key)
        THEN IF cpf_validate(key).tag # "Ok" THEN cpf_validate(key)
             ELSE Ok(<<"Cpf", cpf_validate(key).val>>)
        ELSE IF is_cnpj_format(key)
        THEN IF cnpj_validate(key).tag # "Ok" THEN cnpj_validate(key)
             ELSE Ok(<<"Cnpj", cnpj_validate(key).val>>)
        ELSE IF is_email_format(key) THEN Ok(<<"Email", to_lowercase(key)>>)
        ELSE IF is_random_key_format(key)
        THEN Ok(<<"Random", to_lowercase(key)>>)
        ELSE invalid_pix_key("formato nao reconhecido")

\* pix_validate_with_type returning the random key as it was given
pix_validate_with_type_RandomVerbatim(key0) ==
    LET key == trim(key0)
    IN  IF is_cpf_format(key)
        THEN IF cpf_validate(key).tag # "Ok" THEN cpf_validate(key)
             ELSE Ok(<<"Cpf", cpf_validate(key).val>>)
        ELSE IF is_cnpj_format(key)
        THEN IF cnpj_validate(key).tag # "Ok" THEN cnpj_validate(key)
             ELSE Ok(<<"Cnpj", cnpj_validate(key).val>>)
        ELSE IF is_email_format(key) THEN Ok(<<"Email", to_lowercase(key)>>)
        ELSE IF is_phone_format(key) THEN Ok(<<"Phone", key>>)
        ELSE IF is_random_key_format(key) THEN Ok(<<"Random", key>>)
        ELSE invalid_pix_key("formato nao reconhecido")

\* Ok((PixKeyType, String)) carries the pair of the tag and the value
pix_validate_with_type(key0) ==
    LET key == trim(key0)
    IN  IF is_cpf_format(key)
        THEN IF cpf_validate(key).tag # "Ok" THEN cpf_validate(key)
             ELSE Ok(<<"Cpf", cpf_validate(key).val>>)
        ELSE IF is_cnpj_format(key)
        THEN IF cnpj_validate(key).tag # "Ok" THEN cnpj_validate(key)
             ELSE Ok(<<"Cnpj", cnpj_validate(key).val>>)
        ELSE IF is_email_format(key) THEN Ok(<<"Email", to_lowercase(key)>>)
        ELSE IF is_phone_format(key) THEN Ok(<<"Phone", key>>)
        ELSE IF is_random_key_format(key)
        THEN Ok(<<"Random", to_lowercase(key)>>)
        ELSE invalid_pix_key("formato nao reconhecido")

\* The entry points step by step, as a thread runs them: the tag of the
\* recognizer that matched, what a call returns once the pattern name has
\* matched the trimmed key, and what it returns when none has.
TagOf(name) ==
    CASE name = "CPF_REGEX" -> "Cpf"
      [] name = "CNPJ_REGEX" -> "Cnpj"
      [] name = "EMAIL_REGEX" -> "Email"
      [] name = "PIX_PHONE_REGEX" -> "Phone"
      [] name = "RANDOM_KEY_REGEX" -> "Random"

OnMatch(call, name, key) ==
    IF call = "pix::detect_type" THEN Some(TagOf(name))
    ELSE IF name = "CPF_REGEX" /\ cpf_validate(key).tag # "Ok"
    THEN cpf_validate(key)
    ELSE IF name = "CNPJ_REGEX" /\ cnpj_validate(key).tag # "Ok"
    THEN cnpj_validate(key)
    ELSE IF call = "pix::validate" THEN Ok(<<>>)
    ELSE Ok(<<TagOf(name),
              CASE name = "CPF_REGEX" -> cpf_validate(key).val
                [] name = "CNPJ_REGEX" -> cnpj_validate(key).val
                [] name = "EMAIL_REGEX" -> to_lowercase(key)
                [] name = "PIX_PHONE_REGEX" -> key
                [] name = "RANDOM_KEY_REGEX" -> to_lowercase(key)>>)

OnNoMatch(call) ==
    IF call = "pix::detect_type" THEN None
    ELSE invalid_pix_key("formato nao reconhecido")

\* detect_type with the recognizers consulted in the order of chain
DetectWith(chain, key0) ==
    LET key == trim(key0)
        hits == {i \in 1..Len(chain) :
                    is_match(Compile(chain[i]), Subject(chain[i], key))}
    IN  IF hits = {} THEN None
        ELSE Some(TagOf(chain[CHOOSE i \in hits : \A j \in hits : i <= j]))

\* pix_normalize applied to the key as given, without trimming it
pix_normalize_NoTrim(key0) ==
    LET key == key0
    IN  IF is_cpf_format(key) THEN Returned(cpf_normalize(key))
        ELSE IF is_cnpj_format(key) THEN Returned(cnpj_normalize(key))
        ELSE IF is_email_format(key) THEN Returned(to_lowercase(key))
        ELSE IF is_random_key_format(key) THEN Returned(to_lowercase(key))
        ELSE Returned(key)

\* pix::normalize; a phone key has no branch of its own
pix_normalize(key0) ==
    LET key == trim(key0)
    IN  IF is_cpf_format(key) THEN Returned(cpf_normalize(key))
        ELSE IF is_cnpj_format(key) THEN Returned(cnpj_normalize(key))
        ELSE IF is_email_format(key) THEN Returned(to_lowercase(key))
        ELSE IF is_random_key_format(key) THEN Returned(to_lowercase(key))
        ELSE Returned(key)

\* cpf_mask revealing the last three digits instead of the last two
cpf_mask_LastThree(cpf) ==
    LET cleaned == cpf_normalize(cpf)
    IN  IF ByteLen(cleaned) = 11
        THEN Returned(Slice(cleaned, 0, 3)
                      \o <<".", "*", "*", "*", ".", "*", "*", "*", "-">>
                      \o Slice(cleaned, 8, 11))
        ELSE Returned(cpf)

\* cpf::mask
cpf_mask(cpf) ==
    LET cleaned == cpf_normalize(cpf)
    IN  IF ByteLen(cleaned) = 11
        THEN IF ~CanSlice(cleaned, 0, 3) \/ ~CanSlice(cleaned, 9, 11)
             THEN Panic
             ELSE Returned(Slice(cleaned, 0, 3)
                           \o <<".", "*", "*", "*", ".", "*", "*", "*", "-">>
                           \o Slice(cleaned, 9, 11))
        ELSE Returned(cpf)

\* cnpj::mask
cnpj_mask(cnpj) ==
    LET cleaned == cnpj_normalize(cnpj)
    IN  IF ByteLen(cleaned) = 14
        THEN IF ~CanSlice(cleaned, 0, 2) \/ ~CanSlice(cleaned, 10, 12)
                \/ ~CanSlice(cleaned, 12, 14)
             THEN Panic
             ELSE Returned(Slice(cleaned, 0, 2)
                           \o <<".", "*", "*", "*", ".", "*", "*", "*", "/",
                                "*", "*">>
                           \o Slice(cleaned, 10, 12) \o <<"-">>
                           \o Slice(cleaned, 12, 14))
        ELSE Returned(cnpj)

\* str::find('@'): the byte offset of the first '@', -1 for None
FindAt(s) ==
    IF \E i \in 1..Len(s) : s[i] = "@"
    THEN ByteOffset(s, CHOOSE i \in 1..Len(s) :
                           s[i] = "@" /\ \A j \in 1..(i - 1) : s[j] # "@")
    ELSE -1

\* mask_email revealing the first character of every non-empty local part
mask_email_AlwaysReveals(email) ==
    LET at_pos == FindAt(email)
    IN  IF at_pos >= 0
        THEN LET local == Slice(email, 0, at_pos)
                 domain == Slice(email, at_pos, ByteLen(email))
             IN  IF ByteLen(local) > 0
                 THEN Returned(Slice(local, 0, 1) \o <<"*", "*", "*">>
                               \o domain)
                 ELSE Returned(<<"*", "*", "*">> \o domain)
        ELSE Returned(email)

mask_email(email) ==
    LET at_pos == FindAt(email)
    IN  IF at_pos >= 0
        THEN IF ~CanSlice(email, 0, at_pos)
                \/ ~CanSlice(email, at_pos, ByteLen(email))
             THEN Panic
             ELSE LET local == Slice(email, 0, at_pos)
                      domain == Slice(email, at_pos, ByteLen(email))
                  IN  IF ByteLen(local) > 1
                      THEN IF ~CanSlice(local, 0, 1) THEN Panic
                           ELSE Returned(Slice(local, 0, 1)
                                         \o <<"*", "*", "*">> \o domain)
                      ELSE Returned(<<"*", "*", "*">> \o domain)
        ELSE Returned(email)

mask_phone(phone) ==
    IF ByteLen(phone) >= 14
    THEN IF ~CanSlice(phone, 3, 5)
            \/ ~CanSlice(phone, ByteLen(phone) - 4, ByteLen(phone))
         THEN Panic
         ELSE Returned(<<"+", "5", "5", " ", "(">> \o Slice(phone, 3, 5)
                       \o <<")", " ", "*", "*", "*", "*", "*", "-">>
                       \o Slice(phone, ByteLen(phone) - 4, ByteLen(phone)))
    ELSE Returned(phone)

mask_random_key(key) ==
    IF ByteLen(key) >= 8
    THEN IF ~CanSlice(key, 0, 4) THEN Panic
         ELSE Returned(Slice(key, 0, 4)
                       \o <<"*", "*", "*", "*", "-", "*", "*", "*", "*", "-",
                            "*", "*", "*", "*", "-", "*", "*", "*", "*", "-",
                            "*", "*", "*", "*">>)
    ELSE Returned(key)

\* pix_mask handing a phone-shaped key to the Phone Engine's masker
pix_mask_PhoneEngine(key0) ==
    LET key == trim(key0)
    IN  IF is_cpf_format(key) THEN cpf_mask(key)
        ELSE IF is_cnpj_format(key) THEN cnpj_mask(key)
        ELSE IF is_email_format(key) THEN mask_email(key)
        ELSE IF is_phone_format(key) THEN phone_mask(key)
        ELSE IF is_random_key_format(key) THEN mask_random_key(key)
        ELSE Returned(key)

pix_mask(key0) ==
    LET key == trim(key0)
    IN  IF is_cpf_format(key) THEN cpf_mask(key)
        ELSE IF is_cnpj_format(key) THEN cnpj_mask(key)
        ELSE IF is_email_format(key) THEN mask_email(key)
        ELSE IF is_phone_format(key) THEN mask_phone(key)
        ELSE IF is_random_key_format(key) THEN mask_random_key(key)
        ELSE Returned(key)

----------------------------------------------------------------------------
(* Input strings the calls are made on *)

\* number of sample digit bases per tax-ID kind, besides the ten
\* repeated-digit bases
NumBases == 3
\* how many digits beyond the kind's length an input may carry
MaxExtra == 2
\* largest step of the CEP digit progressions
MaxStep == 2

\* the string of a sequence of digit values
DigitString(ds) == [i \in 1..Len(ds) |-> AsciiDigitSeq[ds[i] + 1]]

\* A template is a string in which "#" stands for the next digit; digits
\* left over when the template ends are appended, placeholders left over
\* when the digits end are dropped.
RECURSIVE Fill(_, _)
Fill(tpl, ds) ==
    IF tpl = <<>> THEN DigitString(ds)
    ELSE IF Head(tpl) = "#"
    THEN IF ds = <<>> THEN Fill(Tail(tpl), ds)
         ELSE <<AsciiDigitSeq[Head(ds) + 1]>> \o Fill(Tail(tpl), Tail(ds))
    ELSE <<Head(tpl)>> \o Fill(Tail(tpl), ds)

\* 9-digit CPF bases: 123456789 (of the documented 123.456.789-09), other
\* samples, and the ten repeated-digit bases
CpfBase(k) == [i \in 1..9 |-> (i + k * (i * i + 1)) % 10]

CpfBases ==
    {CpfBase(k) : k \in 0..(NumBases - 1)} \cup {[i \in 1..9 |-> c] : c \in 0..9}

CpfDigitSeqs ==
    {b \o <<x, y>> : b \in CpfBases, x \in 0..9, y \in 0..9}
    \cup {SubSeq(b \o b, 1, n) : b \in CpfBases, n \in 0..(11 + MaxExtra)}

CpfTemplates ==
    { <<>>,
      <<"#", "#", "#", ".", "#", "#", "#", ".", "#", "#", "#", "-", "#", "#">>,
      <<" ", "#", "#", "#", " ", ArabicIndicThree, "#", "#", "#", "+", "#",
        "#", "#", "/", "#", "#", "x", "\n">> }

CpfInputs == {Fill(t, d) : t \in CpfTemplates, d \in CpfDigitSeqs}

\* 12-digit CNPJ bases: 112223330001 (of the documented 11.222.333/0001-81),
\* other samples, and the ten repeated-digit bases
CnpjBase(k) ==
    IF k = 0 THEN <<1, 1, 2, 2, 2, 3, 3, 3, 0, 0, 0, 1>>
    ELSE [i \in 1..12 |-> (i * k + k * k + i * i) % 10]

CnpjBases ==
    {CnpjBase(k) : k \in 0..(NumBases - 1)}
    \cup {[i \in 1..12 |-> c] : c \in 0..9}

CnpjDigitSeqs ==
    {b \o <<x, y>> : b \in CnpjBases, x \in 0..9, y \in 0..9}
    \cup {SubSeq(b \o b, 1, n) : b \in CnpjBases, n \in 0..(14 + MaxExtra)}

CnpjTemplates ==
    { <<>>,
      <<"#", "#", ".", "#", "#", "#", ".", "#", "#", "#", "/", "#", "#", "#",
        "#", "-", "#", "#">>,
      <<"\t", "#", "#", "-", "#", "#", "#", DevanagariThree, "#", "#", "#",
        "+", "#", "#", "#", "#", " ", "#", "#", "y">> }

CnpjInputs == {Fill(t, d) : t \in CnpjTemplates, d \in CnpjDigitSeqs}

\* CEP digit strings: arithmetic progressions a, a+b, a+2b, ... (mod 10);
\* step 0 gives the repeated-digit values, among them 00000000
CepDigitSeqs ==
    {[i \in 1..n |-> (a + b * (i - 1)) % 10] :
        a \in 0..9, b \in 0..MaxStep, n \in {0} \cup (6..(8 + MaxExtra))}

CepTemplates ==
    { <<>>,
      <<"#", "#", "#", "#", "#", "-", "#", "#", "#">>,
      <<" ", "#", "#", ".", "#", "#", "#", ArabicIndicThree, "c", "#", "#",
        "#", " ">> }

CepInputs == {Fill(t, d) : t \in CepTemplates, d \in CepDigitSeqs}

\* Phone inputs: an optional country-code prefix, then a national number
\* made of an area code (every two-digit value), a third digit, and 6 to 9
\* further digits, written through a template
PhoneTail == [i \in 1..(7 + MaxExtra) |-> (19 - i) % 10]

PhoneNationals ==
    {<<a \div 10, a % 10, third>> \o SubSeq(PhoneTail, 1, n) :
        a \in 0..99, third \in {9, 3}, n \in 6..(7 + MaxExtra)}

PhonePrefixes == { <<>>, <<"+", "5", "5">>, <<"5", "5">>, <<"+">> }

PhoneTemplates ==
    { <<>>,
      <<" ", "(", "#", "#", ")", " ", "#", "#", "#", "#", "#", "-">>,
      <<"#", "#", "#", "+", "#">> }

PhoneInputs ==
    {p \o Fill(t, d) :
        p \in PhonePrefixes, t \in PhoneTemplates, d \in PhoneNationals}

ValidatorInputs == CpfInputs \cup CnpjInputs \cup CepInputs \cup PhoneInputs

----------------------------------------------------------------------------
(* The validators: one call on one input *)

\* no concurrent thread is modelled in the single-call specifications
NoThreads == <<>>

Init ==
    /\ input \in ValidatorInputs
    /\ op = "none"
    /\ out = NoResult
    /\ statics = [n \in RegexNames |-> Uninitialized]
    /\ threads = NoThreads

CpfValidate ==
    /\ op = "none"
    /\ op' = "cpf::validate"
    /\ out' = cpf_validate(input)
    /\ UNCHANGED <<input, statics, threads>>

CnpjValidate ==
    /\ op = "none"
    /\ op' = "cnpj::validate"
    /\ out' = cnpj_validate(input)
    /\ UNCHANGED <<input, statics, threads>>

CepValidate ==
    /\ op = "none"
    /\ op' = "cep::validate"
    /\ out' = cep_validate(input)
    /\ UNCHANGED <<input, statics, threads>>

PhoneValidate ==
    /\ op = "none"
    /\ op' = "phone::validate"
    /\ out' = phone_validate(input)
    /\ UNCHANGED <<input, statics, threads>>

Next == CpfValidate \/ CnpjValidate \/ CepValidate \/ PhoneValidate

Spec == Init /\ [][Next]_vars

----------------------------------------------------------------------------
(* The PIX dispatcher: one call on one key *)

\* CPF- and CNPJ-shaped keys: every 11- and 14-digit sample, bare and
\* punctuated
PixTaxIdKeys ==
    {Fill(t, d) : t \in {<<>>, <<"#", "#", "#", ".", "#", "#", "#", ".", "#",
                                "#", "#", "-", "#", "#">>},
                  d \in {x \in CpfDigitSeqs : Len(x) = 11}}
    \cup
    {Fill(t, d) : t \in {<<>>, <<"#", "#", ".", "#", "#", "#", ".", "#", "#",
                                "#", "/", "#", "#", "#", "#", "-", "#", "#">>},
                  d \in {x \in CnpjDigitSeqs : Len(x) = 14}}

\* keys in which one or all of the digits are non-ASCII decimal digits
WithUnicodeDigits(keys, first) ==
    {[k EXCEPT ![i] = u] :
        k \in keys, i \in {first, first + 1},
        u \in {ArabicIndicThree, DevanagariThree}}
    \cup
    {[i \in 1..Len(k) |-> IF i >= first /\ k[i] \in AsciiDigits THEN u
                           ELSE k[i]] :
        k \in keys, u \in {ArabicIndicThree, DevanagariThree}}

PixUnicodeKeys ==
    WithUnicodeDigits(
        { <<"1", "2", "3", "4", "5", "6", "7", "8", "9", "0", "9">>,
          <<"1", "2", "3", ".", "4", "5", "6", ".", "7", "8", "9", "-", "0",
            "9">>,
          <<"1", "1", "2", "2", "2", "3", "3", "3", "0", "0", "0", "1", "8",
            "1">> }, 1)
    \cup
    WithUnicodeDigits(
        { <<"+", "5", "5", "1", "1", "9", "8", "7", "6", "5", "4", "3", "2",
            "1">> }, 4)

\* phone keys: "+55" or nothing, then a national number of 9 to 12 digits
PixPhoneKeys ==
    {p \o DigitString(d) :
        p \in {<<>>, <<"+", "5", "5">>, <<"+", "5", "5", " ">>},
        d \in PhoneNationals}

PixEmailKeys ==
    { <<"u", "s", "e", "r", "@", "e", "x", "a", "m", "p", "l", "e", ".",
        "c", "o", "m">>,
      <<"U", "s", "e", "r", "@", "E", "x", "a", "m", "p", "l", "e", ".",
        "C", "O", "M">>,
      <<"t", "e", "s", "t", ".", "u", "s", "e", "r", "+", "t", "a", "g",
        "@", "d", "o", "m", "a", "i", "n", ".", "c", "o", ".", "u", "k">>,
      <<"a", "@", "b", ".", "c", "o">>,
      <<"i", "n", "v", "a", "l", "i", "d", "@">>,
      <<"a", "@", "b", ".", "c">>,
      <<"@", "b", ".", "c", "o">>,
      <<"a", ".", "b", "@", "c", "-", "d", ".", "e", "1", ".", "f", "g">>,
      <<"1", "2", "3", "4", "5", "6", "7", "8", "9", "0", "9", "@", "x",
        ".", "i", "o">> }

PixRandomKeys ==
    { <<"1", "2", "3", "e", "4", "5", "6", "7", "-", "e", "8", "9", "b",
        "-", "1", "2", "d", "3", "-", "a", "4", "5", "6", "-", "4", "2",
        "6", "6", "1", "4", "1", "7", "4", "0", "0", "0">>,
      <<"1", "2", "3", "E", "4", "5", "6", "7", "-", "E", "8", "9", "B",
        "-", "1", "2", "D", "3", "-", "A", "4", "5", "6", "-", "4", "2",
        "6", "6", "1", "4", "1", "7", "4", "0", "0", "0">>,
      <<"1", "2", "3", "e", "4", "5", "6", "7", "-", "e", "8", "9", "b",
        "-", "1", "2", "d", "3", "-", "a", "4", "5", "6", "-", "4", "2",
        "6", "6", "1", "4", "1", "7", "4", "0", "0">>,
      <<"1", "2", "3", "g", "4", "5", "6", "7", "-", "e", "8", "9", "b",
        "-", "1", "2", "d", "3", "-", "a", "4", "5", "6", "-", "4", "2",
        "6", "6", "1", "4", "1", "7", "4", "0", "0", "0">>,
      <<"1", "2", "3", "e", "4", "5", "6", "7", "e", "8", "9", "b", "-",
        "1", "2", "d", "3", "-", "a", "4", "5", "6", "-", "4", "2", "6",
        "6", "1", "4", "1", "7", "4", "0", "0", "0">>,
      <<"n", "o", "t", "-", "a", "-", "u", "u", "i", "d">> }

PixOtherKeys ==
    { <<>>,
      <<"i", "n", "v", "a", "l", "i", "d">>,
      <<"1", "2", "3", "4", "5", "6", "7", "8", "9", "0">>,
      <<"+", "5", "5">>,
      <<"a", "b", "c", ".", "d", "e", "f", ".", "g", "h", "i", "-", "j",
        "k">> }

PixKeys ==
    PixTaxIdKeys \cup PixUnicodeKeys \cup PixPhoneKeys \cup PixEmailKeys
    \cup PixRandomKeys \cup PixOtherKeys

\* white space put around a key
PixPaddings ==
    { <<<<>>, <<>>>>, <<<<" ">>, <<"\n">>>>, <<<<NoBreakSpace, "\t">>, <<>>>> }

PixInputs == {pad[1] \o k \o pad[2] : k \in PixKeys, pad \in PixPaddings}

InitPix ==
    /\ input \in PixInputs
    /\ op = "none"
    /\ out = NoResult
    /\ statics = [n \in RegexNames |-> Uninitialized]
    /\ threads = NoThreads

PixValidate ==
    /\ op = "none"
    /\ op' = "pix::validate"
    /\ out' = pix_validate(input)
    /\ statics' = ForcedBy(statics, Consulted(RecognizerChain, trim(input)))
    /\ UNCHANGED <<input, threads>>

PixDetectType ==
    /\ op = "none"
    /\ op' = "pix::detect_type"
    /\ out' = pix_detect_type(input)
    /\ statics' = ForcedBy(statics, Consulted(RecognizerChain, trim(input)))
    /\ UNCHANGED <<input, threads>>

PixMask ==
    /\ op = "none"
    /\ op' = "pix::mask"
    /\ out' = pix_mask(input)
    /\ statics' = ForcedBy(statics, Consulted(RecognizerChain, trim(input)))
    /\ UNCHANGED <<input, threads>>

PixValidateWithType ==
    /\ op = "none"
    /\ op' = "pix::validate_with_type"
    /\ out' = pix_validate_with_type(input)
    /\ statics' = ForcedBy(statics, Consulted(RecognizerChain, trim(input)))
    /\ UNCHANGED <<input, threads>>

PixNormalize ==
    /\ op = "none"
    /\ op' = "pix::normalize"
    /\ out' = pix_normalize(input)
    /\ statics' = ForcedBy(statics, Consulted(NormalizeChain, trim(input)))
    /\ UNCHANGED <<input, threads>>

NextPix ==
    \/ PixValidate
    \/ PixDetectType
    \/ PixMask
    \/ PixValidateWithType
    \/ PixNormalize

SpecPix == InitPix /\ [][NextPix]_vars

----------------------------------------------------------------------------
(* The PIX dispatcher called from concurrent threads: each thread makes one
   call, at any time, and runs it one pattern at a time *)

\* number of threads
NumThreads == 2

Threads == 1..NumThreads

ThreadCalls == {"pix::detect_type", "pix::validate", "pix::validate_with_type"}

\* a valid CPF padded with white space, a PIX phone key, a random key in
\* upper case, and a key of no kind
ThreadKeys ==
    { <<" ", "1", "2", "3", "4", "5", "6", "7", "8", "9", "0", "9", "\n">>,
      <<"+", "5", "5", "1", "1", "9", "8", "7", "6", "5", "4", "3", "2", "1">>,
      <<"1", "2", "3", "E", "4", "5", "6", "7", "-", "E", "8", "9", "B",
        "-", "1", "2", "D", "3", "-", "A", "4", "5", "6", "-", "4", "2",
        "6", "6", "1", "4", "1", "7", "4", "0", "0", "0">>,
      <<"i", "n", "v", "a", "l", "i", "d">> }

\* a thread: where it is (idle, running, done), the call it makes and its
\* argument, the position in RecognizerChain of the pattern it consults
\* next, whether another call was in progress during its own, its result
Idle ==
    [pc |-> "idle", call |-> "none", arg |-> <<>>, at |-> 0,
     overlapped |-> FALSE, result |-> NoResult]

InitThreads ==
    /\ input = <<>>
    /\ op = "none"
    /\ out = NoResult
    /\ statics = [n \in RegexNames |-> Uninitialized]
    /\ threads = [t \in Threads |-> Idle]

\* the pattern thread t consults next
CurrentStatic(t) == RecognizerChain[threads[t].at]

\* thread t enters an entry point with a key
Call(t) ==
    /\ threads[t].pc = "idle"
    /\ \E c \in ThreadCalls, k \in ThreadKeys :
           threads' =
               [u \in Threads |->
                   IF u = t
                   THEN [pc |-> "running", call |-> c, arg |-> k, at |-> 1,
                         overlapped |->
                             \E v \in Threads : threads[v].pc = "running",
                         result |-> NoResult]
                   ELSE IF threads[u].pc = "running"
                   THEN [threads[u] EXCEPT !.overlapped = TRUE]
                   ELSE threads[u]]
    /\ UNCHANGED <<input, op, out, statics>>

\* BeginInit without the once-only guard: a thread starts compiling a
\* pattern that another thread is still compiling
BeginInit_NoOnce(t) ==
    /\ threads[t].pc = "running"
    /\ statics[CurrentStatic(t)].state # "ready"
    /\ statics' = [statics EXCEPT ![CurrentStatic(t)] = Initializing(t)]
    /\ UNCHANGED <<input, op, out, threads>>

\* thread t dereferences a pattern nobody has initialized and starts
\* compiling it
BeginInit(t) ==
    /\ threads[t].pc = "running"
    /\ statics[CurrentStatic(t)].state = "uninit"
    /\ statics' = [statics EXCEPT ![CurrentStatic(t)] = Initializing(t)]
    /\ UNCHANGED <<input, op, out, threads>>

\* thread t stores the compiled pattern
FinishInit(t) ==
    /\ threads[t].pc = "running"
    /\ statics[CurrentStatic(t)] = Initializing(t)
    /\ statics' =
           [statics EXCEPT ![CurrentStatic(t)] = Initialized(CurrentStatic(t))]
    /\ UNCHANGED <<input, op, out, threads>>

\* thread t matches its trimmed key against the pattern it dereferenced,
\* and returns or goes on to the next pattern
Recognize(t) ==
    LET name == CurrentStatic(t)
        key == trim(threads[t].arg)
        call == threads[t].call
    IN  /\ threads[t].pc = "running"
        /\ LazyReadable(statics[name])
        /\ threads' =
               [threads EXCEPT ![t] =
                   IF is_match(statics[name].value, Subject(name, key))
                   THEN [@ EXCEPT !.pc = "done",
                                  !.result = OnMatch(call, name, key)]
                   ELSE IF @.at = Len(RecognizerChain)
                   THEN [@ EXCEPT !.pc = "done", !.result = OnNoMatch(call)]
                   ELSE [@ EXCEPT !.at = @ + 1]]
        /\ UNCHANGED <<input, op, out, statics>>

NextThreads ==
    \E t \in Threads :
        Call(t) \/ BeginInit(t) \/ FinishInit(t) \/ Recognize(t)

SpecThreads == InitThreads /\ [][NextThreads]_vars

----------------------------------------------------------------------------
(* normalize, format and mask: one call on one string *)

\* digit strings of every length around each kind's, and the documented
\* CPF and CNPJ bases with every pair of check digits, written bare, with
\* the kind's punctuation, and among other characters
TextDigitInputs ==
    {Fill(t, SubSeq(b \o b, 1, n)) :
        t \in CpfTemplates, b \in CpfBases, n \in 0..(11 + MaxExtra)}
    \cup
    {Fill(t, SubSeq(b \o b, 1, n)) :
        t \in CnpjTemplates, b \in CnpjBases, n \in 0..(14 + MaxExtra)}
    \cup
    {Fill(t, CpfBase(0) \o <<x, y>>) :
        t \in CpfTemplates, x \in 0..9, y \in 0..9}
    \cup
    {Fill(t, CnpjBase(0) \o <<x, y>>) :
        t \in CnpjTemplates, x \in 0..9, y \in 0..9}
    \cup CepInputs

\* phone numbers of the area codes 11 and 55
TextPhoneInputs ==
    {p \o Fill(t, d) :
        p \in PhonePrefixes, t \in PhoneTemplates,
        d \in {x \in PhoneNationals : <<x[1], x[2]>> \in {<<1, 1>>, <<5, 5>>}}}

\* CNPJ-shaped keys with three non-ASCII digits, of which 11 ASCII digits
\* are left, and CPF-shaped keys with three
TextShiftingKeys ==
    {[i \in 1..Len(k) |-> IF i \in at THEN u ELSE k[i]] :
        k \in { <<"1", "1", "2", "2", "2", "3", "3", "3", "0", "0", "0", "1",
                  "8", "1">>,
                <<"1", "2", "3", "4", "5", "6", "7", "8", "9", "0", "9">> },
        at \in {{1, 2, 3}, {2, 5, 9}},
        u \in {ArabicIndicThree, DevanagariThree}}

TextPixInputs ==
    {pad[1] \o k \o pad[2] :
        k \in PixUnicodeKeys \cup PixEmailKeys \cup PixRandomKeys
               \cup PixOtherKeys \cup TextShiftingKeys,
        pad \in PixPaddings}

TextInputs == TextDigitInputs \cup TextPhoneInputs \cup TextPixInputs

InitText ==
    /\ input \in TextInputs
    /\ op = "none"
    /\ out = NoResult
    /\ statics = [n \in RegexNames |-> Uninitialized]
    /\ threads = NoThreads

CpfNormalize ==
    /\ op = "none"
    /\ op' = "cpf::normalize"
    /\ out' = Returned(cpf_normalize(input))
    /\ UNCHANGED <<input, statics, threads>>

CnpjNormalize ==
    /\ op = "none"
    /\ op' = "cnpj::normalize"
    /\ out' = Returned(cnpj_normalize(input))
    /\ UNCHANGED <<input, statics, threads>>

CepNormalize ==
    /\ op = "none"
    /\ op' = "cep::normalize"
    /\ out' = Returned(cep_normalize(input))
    /\ UNCHANGED <<input, statics, threads>>

PhoneNormalize ==
    /\ op = "none"
    /\ op' = "phone::normalize"
    /\ out' = Returned(phone_normalize(input))
    /\ UNCHANGED <<input, statics, threads>>

CpfFormat ==
    /\ op = "none"
    /\ op' = "cpf::format"
    /\ out' = cpf_format(input)
    /\ UNCHANGED <<input, statics, threads>>

CnpjFormat ==
    /\ op = "none"
    /\ op' = "cnpj::format"
    /\ out' = cnpj_format(input)
    /\ UNCHANGED <<input, statics, threads>>

CepFormat ==
    /\ op = "none"
    /\ op' = "cep::format"
    /\ out' = cep_format(input)
    /\ UNCHANGED <<input, statics, threads>>

PhoneFormat ==
    /\ op = "none"
    /\ op' = "phone::format"
    /\ out' = phone_format(input)
    /\ UNCHANGED <<input, statics, threads>>

CpfMask ==
    /\ op = "none"
    /\ op' = "cpf::mask"
    /\ out' = cpf_mask(input)
    /\ UNCHANGED <<input, statics, threads>>

CnpjMask ==
    /\ op = "none"
    /\ op' = "cnpj::mask"
    /\ out' = cnpj_mask(input)
    /\ UNCHANGED <<input, statics, threads>>

PhoneMask ==
    /\ op = "none"
    /\ op' = "phone::mask"
    /\ out' = phone_mask(input)
    /\ UNCHANGED <<input, statics, threads>>

NextText ==
    \/ CpfNormalize \/ CnpjNormalize \/ CepNormalize \/ PhoneNormalize
    \/ PixNormalize
    \/ CpfFormat \/ CnpjFormat \/ CepFormat \/ PhoneFormat
    \/ CpfMask \/ CnpjMask \/ PhoneMask

SpecText == InitText /\ [][NextText]_vars

----------------------------------------------------------------------------
(* Properties of the validators *)

\* the ASCII decimal digits of a string, in their original order
AsciiDigitsOf(s) ==
    SelectSeq(s, LAMBDA c : c \in {"0", "1", "2", "3", "4", "5", "6", "7", "8", "9"})

\* the value of an ASCII digit character
DigitValue(c) ==
    CASE c = "0" -> 0 [] c = "1" -> 1 [] c = "2" -> 2 [] c = "3" -> 3
      [] c = "4" -> 4 [] c = "5" -> 5 [] c = "6" -> 6 [] c = "7" -> 7
      [] c = "8" -> 8 [] c = "9" -> 9

\* is the string one character repeated?
IsRepeated(d) == \A i \in 1..Len(d) : d[i] = d[1]

\* chk(x) = 0 if x mod 11 < 2 and 11 - (x mod 11) otherwise
Chk(x) == IF x % 11 < 2 THEN 0 ELSE 11 - (x % 11)

\* sum over i in 0..8 of d[i]*(10-i), d indexed from 0
CpfSum1(d) ==
    10 * DigitValue(d[1]) + 9 * DigitValue(d[2]) + 8 * DigitValue(d[3])
    + 7 * DigitValue(d[4]) + 6 * DigitValue(d[5]) + 5 * DigitValue(d[6])
    + 4 * DigitValue(d[7]) + 3 * DigitValue(d[8]) + 2 * DigitValue(d[9])

\* sum over i in 0..9 of d[i]*(11-i), d indexed from 0
CpfSum2(d) ==
    11 * DigitValue(d[1]) + 10 * DigitValue(d[2]) + 9 * DigitValue(d[3])
    + 8 * DigitValue(d[4]) + 7 * DigitValue(d[5]) + 6 * DigitValue(d[6])
    + 5 * DigitValue(d[7]) + 4 * DigitValue(d[8]) + 3 * DigitValue(d[9])
    + 2 * DigitValue(d[10])

\* what claim C1 says cpf::validate returns on a string whose digits are d
CpfExpected(d) ==
    IF Len(d) # 11 THEN InvalidLength(11, Len(d))
    ELSE IF IsRepeated(d) THEN invalid_cpf("sequencia de digitos repetidos")
    ELSE IF DigitValue(d[10]) = Chk(CpfSum1(d))
            /\ DigitValue(d[11]) = Chk(CpfSum2(d))
    THEN Ok(d)
    ELSE InvalidCheckDigits("CPF")

\* C1: cpf::validate(s) returns Ok(d), d the ASCII digits of s, exactly when
\* d has 11 digits, is not one digit repeated, and both modulo-11 check
\* digits match; otherwise InvalidLength{11, |d|}, else InvalidCpf, else
\* InvalidCheckDigits{"CPF"}, in that order.
C1_CpfValidateContract ==
    op = "cpf::validate" => out = CpfExpected(AsciiDigitsOf(input))

\* a punctuated input with correct check digits was accepted
C1_Witness ==
    /\ op = "cpf::validate"
    /\ out.tag = "Ok"
    /\ Len(input) > 11
    /\ Chk(CpfSum1(out.val)) >= 2

\* sum over i of d[i]*w[i] for the positions i..Len(w)
RECURSIVE SumProd(_, _, _)
SumProd(d, w, i) ==
    IF i > Len(w) THEN 0
    ELSE DigitValue(d[i]) * w[i] + SumProd(d, w, i + 1)

\* what claim C2 says cnpj::validate returns on a string whose digits are d
CnpjExpected(d) ==
    IF Len(d) # 14 THEN InvalidLength(14, Len(d))
    ELSE IF IsRepeated(d) THEN invalid_cnpj("sequencia de digitos repetidos")
    ELSE IF DigitValue(d[13])
              = Chk(SumProd(d, <<5, 4, 3, 2, 9, 8, 7, 6, 5, 4, 3, 2>>, 1))
            /\ DigitValue(d[14])
              = Chk(SumProd(d, <<6, 5, 4, 3, 2, 9, 8, 7, 6, 5, 4, 3, 2>>, 1))
    THEN Ok(d)
    ELSE InvalidCheckDigits("CNPJ")

\* C2: cnpj::validate(s) returns Ok(d), d the ASCII digits of s, exactly
\* when d has 14 digits, is not one digit repeated, and the two check digits
\* match the weighted modulo-11 sums; otherwise InvalidLength{14, |d|},
\* InvalidCnpj or InvalidCheckDigits{"CNPJ"}, tested in that order.
C2_CnpjValidateContract ==
    op = "cnpj::validate" => out = CnpjExpected(AsciiDigitsOf(input))

\* a punctuated CNPJ whose second check digit is not 0 was accepted
C2_Witness ==
    /\ op = "cnpj::validate"
    /\ out.tag = "Ok"
    /\ Len(input) > 14
    /\ DigitValue(out.val[14]) # 0

\* the check digits section 4.1 computes for a 9-digit base
CpfCheck1(base) == AsciiDigitSeq[Chk(CpfSum1(base)) + 1]
CpfCheck2(base) == AsciiDigitSeq[Chk(CpfSum2(base \o <<CpfCheck1(base)>>)) + 1]

\* d is an accepted value with one of its two check digits replaced by a
\* different digit
IsFlippedAccepted(d) ==
    \E p \in {10, 11} : \E x \in AsciiDigits :
        /\ x # d[p]
        /\ cpf_validate([d EXCEPT ![p] = x]).tag = "Ok"

\* C3: a 9-digit base with its two computed check digits appended is
\* accepted by cpf::validate unless it is a repeated-digit sequence, and an
\* accepted value with either check digit replaced by a different digit is
\* rejected with InvalidCheckDigits.
C3_CpfCheckDigitRoundTrip ==
    LET d == AsciiDigitsOf(input)
        base == SubSeq(d, 1, 9)
    IN  (op = "cpf::validate" /\ Len(d) = 11) =>
            /\ (d = base \o <<CpfCheck1(base), CpfCheck2(base)>>
                /\ ~IsRepeated(d)) => out = Ok(d)
            /\ IsFlippedAccepted(d) => out = InvalidCheckDigits("CPF")

\* cpf::validate was called on an accepted value with its first check digit
\* replaced
C3_Witness ==
    LET d == AsciiDigitsOf(input)
    IN  /\ op = "cpf::validate"
        /\ Len(d) = 11
        /\ cpf_validate([d EXCEPT ![10] = CpfCheck1(SubSeq(d, 1, 9))]).tag = "Ok"
        /\ d[10] # CpfCheck1(SubSeq(d, 1, 9))
        /\ out.tag = "InvalidCheckDigits"

\* C4: a digit repeated 11 times is rejected by cpf::validate with
\* InvalidCpf and a digit repeated 14 times by cnpj::validate with
\* InvalidCnpj, whatever punctuation surrounds the digits and whether or not
\* the sequence's check digits are arithmetically correct.
C4_RepeatedDigitsRejected ==
    LET d == AsciiDigitsOf(input)
    IN  /\ (op = "cpf::validate" /\ Len(d) = 11 /\ IsRepeated(d))
               => out.tag = "InvalidCpf"
        /\ (op = "cnpj::validate" /\ Len(d) = 14 /\ IsRepeated(d))
               => out.tag = "InvalidCnpj"

\* cpf::validate rejected a punctuated repeated-digit sequence whose check
\* digits are arithmetically correct
C4_Witness ==
    LET d == AsciiDigitsOf(input)
    IN  /\ op = "cpf::validate"
        /\ Len(d) = 11
        /\ IsRepeated(d)
        /\ Len(input) > 11
        /\ d[10] = CpfCheck1(SubSeq(d, 1, 9))
        /\ d[11] = CpfCheck2(SubSeq(d, 1, 9))
        /\ out.tag = "InvalidCpf"

\* the national number claim C5 derives from c = phone::normalize(s)
NationalNumber(c) ==
    IF Len(c) >= 3 /\ c[1] = "+" /\ c[2] = "5" /\ c[3] = "5"
    THEN SubSeq(c, 4, Len(c))
    ELSE IF Len(c) > 11 /\ c[1] = "5" /\ c[2] = "5"
    THEN SubSeq(c, 3, Len(c))
    ELSE c

\* what claim C5 says phone::validate returns on a string normalized to c
PhoneExpected(c) ==
    LET n == NationalNumber(c)
    IN  IF Len(n) \notin {10, 11} THEN InvalidLength(10, Len(n))
        ELSE IF SubSeq(n, 1, 2) \notin Range(VALID_DDDS)
        THEN invalid_phone("DDD invalido", SubSeq(n, 1, 2))
        ELSE IF Len(n) = 11 /\ n[3] # "9"
        THEN invalid_phone("celular deve comecar com 9", <<>>)
        ELSE Ok(<<"+", "5", "5">> \o n)

\* C5: phone::validate(s) removes the country code from phone::normalize(s)
\* ("+55", or "55" when more than 11 characters remain) and then returns
\* InvalidLength unless 10 or 11 characters are left, else InvalidPhone
\* unless the first two are one of the 67 area codes, else InvalidPhone if
\* there are 11 and the third is not '9', else Ok("+55" and the national
\* number), the checks being made in this order.
C5_PhoneValidateContract ==
    /\ Cardinality(Range(VALID_DDDS)) = 67
    /\ op = "phone::validate" => out = PhoneExpected(phone_normalize(input))

\* an 11-character number that begins with 55 and carries no country code
\* was accepted with area code 55
C5_Witness ==
    /\ op = "phone::validate"
    /\ out.tag = "Ok"
    /\ phone_normalize(input)[1] = "5"
    /\ Len(phone_normalize(input)) = 11
    /\ Len(out.val) = 14
    /\ out.val[4] = "5" /\ out.val[5] = "5" /\ out.val[6] = "9"

\* C6: every Ok value of a validator is a NormalizedForm of its kind:
\* exactly 11 (CPF), 14 (CNPJ) or 8 (CEP) ASCII digits, and for the phone
\* "+55" followed by exactly 10 or 11 ASCII digits with no other '+'.
C6_OkIsNormalizedForm ==
    LET AllDigits(v) == \A i \in 1..Len(v) : v[i] \in AsciiDigits
    IN  out.tag = "Ok" =>
            /\ op = "cpf::validate" => (Len(out.val) = 11 /\ AllDigits(out.val))
            /\ op = "cnpj::validate" => (Len(out.val) = 14 /\ AllDigits(out.val))
            /\ op = "cep::validate" => (Len(out.val) = 8 /\ AllDigits(out.val))
            /\ op = "phone::validate" =>
                   /\ Len(out.val) \in {13, 14}
                   /\ SubSeq(out.val, 1, 3) = <<"+", "5", "5">>
                   /\ AllDigits(SubSeq(out.val, 4, Len(out.val)))

\* what claim C7 says cep::validate returns on a string whose digits are d
CepExpected(d) ==
    IF Len(d) # 8 THEN InvalidLength(8, Len(d))
    ELSE IF d = <<"0", "0", "0", "0", "0", "0", "0", "0">>
    THEN invalid_cep("CEP invalido")
    ELSE Ok(d)

\* C7: cep::validate(s) returns Ok(d), d the ASCII digits of s, exactly when
\* d has 8 digits and is not 00000000; InvalidLength{8, |d|} when the length
\* differs and InvalidCep for 00000000; no other 8-digit value is rejected.
C7_CepValidateContract ==
    op = "cep::validate" => out = CepExpected(AsciiDigitsOf(input))

\* a punctuated repeated-digit CEP other than 00000000 was accepted
C7_Witness ==
    /\ op = "cep::validate"
    /\ out.tag = "Ok"
    /\ IsRepeated(out.val)
    /\ Len(input) > 8

----------------------------------------------------------------------------
(* Properties of the PIX dispatcher *)

\* a string has the shape of a template when it has the template's length,
\* a character of the digit class wherever the template has "#", and the
\* template's own character everywhere else
HasShape(k, tpl, digitClass) ==
    /\ Len(k) = Len(tpl)
    /\ \A i \in 1..Len(tpl) :
           IF tpl[i] = "#" THEN k[i] \in digitClass ELSE k[i] = tpl[i]

\* the templates obtained from groups of digits by writing or leaving out
\* each separator
RECURSIVE Punctuations(_, _)
Punctuations(groups, seps) ==
    IF Len(groups) = 1 THEN {Repeat("#", groups[1])}
    ELSE {Repeat("#", groups[1]) \o p \o rest :
              p \in {<<>>, <<seps[1]>>},
              rest \in Punctuations(Tail(groups), Tail(seps))}

\* the digit class of the recognizers: the decimal digits, ASCII or not
ShapeDigits == AsciiDigits \cup {ArabicIndicThree, DevanagariThree}

CpfShape(k) ==
    \E t \in Punctuations(<<3, 3, 3, 2>>, <<".", ".", "-">>) :
        HasShape(k, t, ShapeDigits)

CnpjShape(k) ==
    \E t \in Punctuations(<<2, 3, 3, 4, 2>>, <<".", ".", "/", "-">>) :
        HasShape(k, t, ShapeDigits)

IsLetter(c) == c \in AsciiLower \/ c \in AsciiUpper

\* local@domain.tld: a non-empty local part of letters, digits and ._%+-,
\* a non-empty domain of letters, digits, dots and hyphens, and a final
\* label of at least two letters
EmailShape(k) ==
    \E at \in 2..Len(k) : \E dot \in (at + 2)..(Len(k) - 2) :
        /\ k[at] = "@"
        /\ k[dot] = "."
        /\ \A i \in 1..(at - 1) :
               IsLetter(k[i]) \/ k[i] \in AsciiDigits
               \/ k[i] \in {".", "_", "%", "+", "-"}
        /\ \A i \in (at + 1)..(dot - 1) :
               IsLetter(k[i]) \/ k[i] \in AsciiDigits \/ k[i] \in {".", "-"}
        /\ \A i \in (dot + 1)..Len(k) : IsLetter(k[i])

\* "+55" followed by exactly 11 digits
PixPhoneShape(k) ==
    HasShape(k, <<"+", "5", "5">> \o Repeat("#", 11), ShapeDigits)

\* 8-4-4-4-12 hexadecimal digits, in either case
RandomKeyShape(k) ==
    HasShape(k,
             Repeat("#", 8) \o <<"-">> \o Repeat("#", 4) \o <<"-">>
                 \o Repeat("#", 4) \o <<"-">> \o Repeat("#", 4) \o <<"-">>
                 \o Repeat("#", 12),
             AsciiDigits \cup {"a", "b", "c", "d", "e", "f"}
                 \cup {"A", "B", "C", "D", "E", "F"})

\* the string without its leading and trailing white space
Trimmed(s) ==
    LET inner == {i \in 1..Len(s) : s[i] \notin {" ", "\t", "\n", NoBreakSpace}}
    IN  IF inner = {} THEN <<>>
        ELSE SubSeq(s, CHOOSE i \in inner : \A j \in inner : i <= j,
                       CHOOSE i \in inner : \A j \in inner : j <= i)

\* C8: no public operation aborts, whatever the input string; in
\* particular pix::mask returns a string on every key that matches the PIX
\* phone recognizer.
C8_NoOperationPanics == out.tag # "Panic"

\* C9: pix::detect_type trims the key and returns the tag of the first
\* shape it has, in the order CPF, CNPJ, email, PIX phone, random key, or
\* None, without validating the key semantically.
C9_DetectTypeFirstShape ==
    LET k == Trimmed(input)
    IN  op = "pix::detect_type" =>
            out = IF CpfShape(k) THEN Some("Cpf")
                  ELSE IF CnpjShape(k) THEN Some("Cnpj")
                  ELSE IF EmailShape(k) THEN Some("Email")
                  ELSE IF PixPhoneShape(k) THEN Some("Phone")
                  ELSE IF RandomKeyShape(k) THEN Some("Random")
                  ELSE None

\* a key padded with white space whose check digits are wrong was tagged
\* Cpf
C9_Witness ==
    /\ op = "pix::detect_type"
    /\ out = Some("Cpf")
    /\ input # Trimmed(input)
    /\ cpf_validate(input).tag = "InvalidCheckDigits"

\* C10: on a CPF-shaped key pix::validate returns Ok exactly when
\* cpf::validate accepts the key and otherwise cpf::validate's error, and
\* likewise for CNPJ-shaped keys and cnpj::validate; a key rejected by its
\* tax-ID validator is never reported as InvalidPixKey or accepted as
\* another kind.
C10_TaxIdDelegation ==
    LET k == Trimmed(input)
    IN  op = "pix::validate" =>
            /\ CpfShape(k) =>
                   IF cpf_validate(k).tag = "Ok" THEN out.tag = "Ok"
                   ELSE out = cpf_validate(k) /\ out.tag # "InvalidPixKey"
            /\ CnpjShape(k) =>
                   IF cnpj_validate(k).tag = "Ok" THEN out.tag = "Ok"
                   ELSE out = cnpj_validate(k) /\ out.tag # "InvalidPixKey"

\* pix::validate returned the CNPJ validator's rejection of a CNPJ-shaped
\* key
C10_Witness ==
    /\ op = "pix::validate"
    /\ CnpjShape(Trimmed(input))
    /\ out = InvalidCheckDigits("CNPJ")

\* the three entry points' results on one key agree: all three report it
\* unrecognized or none does, and the two validators accept it together
EntryPointsAgree(detected, validated, typed) ==
    /\ (detected = None) <=> (validated.tag = "InvalidPixKey")
    /\ (validated.tag = "InvalidPixKey") <=> (typed.tag = "InvalidPixKey")
    /\ (validated.tag = "Ok") <=> (typed.tag = "Ok")

\* C11: on every key, detect_type returns None exactly when validate
\* returns InvalidPixKey and exactly when validate_with_type returns
\* InvalidPixKey, and validate accepts exactly when validate_with_type
\* accepts.
C11_EntryPointsAgree ==
    /\ op = "pix::detect_type" =>
           EntryPointsAgree(out, pix_validate(input),
                            pix_validate_with_type(input))
    /\ op = "pix::validate" =>
           EntryPointsAgree(pix_detect_type(input), out,
                            pix_validate_with_type(input))
    /\ op = "pix::validate_with_type" =>
           EntryPointsAgree(pix_detect_type(input), pix_validate(input), out)

\* validate_with_type reported a non-empty key padded with white space as
\* unrecognized
C11_Witness ==
    /\ op = "pix::validate_with_type"
    /\ out.tag = "InvalidPixKey"
    /\ Trimmed(input) # <<>>
    /\ input # Trimmed(input)

\* the call made accepted the key and its type is Phone
AcceptedAsPhone ==
    \/ /\ op = "pix::validate_with_type"
       /\ out.tag = "Ok"
       /\ out.val[1] = "Phone"
    \/ /\ op = "pix::validate"
       /\ out.tag = "Ok"
       /\ pix_detect_type(input) = Some("Phone")

\* C12 as stated: every key that pix::validate accepts with type Phone is
\* also accepted by phone::validate.
C12_PixPhoneAcceptedByPhoneEngine ==
    AcceptedAsPhone => phone_validate(input).tag = "Ok"

\* C12 amended: every key that pix::validate accepts with type Phone is
\* "+55" followed by exactly 11 digits and is accepted on that shape alone;
\* phone::validate accepts such a key of ASCII digits exactly when its area
\* code is one of the 67 valid codes and its third national digit is '9'.
C12_PixPhoneIsStructural ==
    LET k == Trimmed(input)
    IN  AcceptedAsPhone =>
            /\ PixPhoneShape(k)
            /\ (\A i \in 4..14 : k[i] \in AsciiDigits) =>
                   ((phone_validate(input).tag = "Ok")
                       <=> (/\ SubSeq(k, 4, 5) \in Range(VALID_DDDS)
                            /\ k[6] = "9"))

\* a key of ASCII digits whose area code is not valid was accepted as a PIX
\* phone key
C12_Witness ==
    /\ AcceptedAsPhone
    /\ \A i \in 4..14 : Trimmed(input)[i] \in AsciiDigits
    /\ SubSeq(Trimmed(input), 4, 5) \notin Range(VALID_DDDS)
    /\ phone_validate(input).tag = "InvalidPhone"

\* C13: pix::validate accepts every key whose trimmed form has the email,
\* PIX phone or random-key shape, whatever its content; a key accepted as a
\* Phone key begins with "+55", and 11 bare digits that are not a valid CPF
\* are not accepted at all.
C13_StructuralMatchAlone ==
    LET k == Trimmed(input)
    IN  /\ (/\ op = "pix::validate"
            /\ EmailShape(k) \/ PixPhoneShape(k) \/ RandomKeyShape(k))
               => out.tag = "Ok"
        /\ AcceptedAsPhone => SubSeq(k, 1, 3) = <<"+", "5", "5">>
        /\ (/\ op \in {"pix::validate", "pix::validate_with_type"}
            /\ HasShape(k, Repeat("#", 11), AsciiDigits)
            /\ cpf_validate(k).tag # "Ok")
               => out.tag \notin {"Ok", "InvalidPixKey"}

\* pix::validate rejected the 11 bare digits of a mobile number that the
\* Phone Engine accepts, with the CPF validator's error
C13_Witness ==
    /\ op = "pix::validate"
    /\ HasShape(Trimmed(input), Repeat("#", 11), AsciiDigits)
    /\ phone_validate(input).tag = "Ok"
    /\ out.tag = "InvalidCheckDigits"

\* C14: when validate_with_type returns Ok((t, v)), v is the digit-only
\* normalized form the tax-ID validator returned if t is Cpf or Cnpj, the
\* trimmed key lowercased if t is Email or Random, and the trimmed key
\* unchanged if t is Phone.
C14_TypedValue ==
    LET k == Trimmed(input)
    IN  (op = "pix::validate_with_type" /\ out.tag = "Ok") =>
            LET t == out.val[1]
                v == out.val[2]
            IN  /\ t \in {"Cpf", "Cnpj", "Email", "Phone", "Random"}
                /\ t = "Cpf" =>
                       v = AsciiDigitsOf(k) /\ cpf_validate(k) = Ok(v)
                /\ t = "Cnpj" =>
                       v = AsciiDigitsOf(k) /\ cnpj_validate(k) = Ok(v)
                /\ t = "Email" => v = to_lowercase(k)
                /\ t = "Phone" => v = k
                /\ t = "Random" => v = to_lowercase(k)

\* validate_with_type returned a random key, given in upper case and
\* padded with white space, trimmed and in lower case
C14_Witness ==
    /\ op = "pix::validate_with_type"
    /\ out.tag = "Ok"
    /\ out.val[1] = "Random"
    /\ input # Trimmed(input)
    /\ out.val[2] # Trimmed(input)
    /\ RandomKeyShape(Trimmed(input))

\* what a call returns when it is the only call the process makes
Alone(call, arg) ==
    CASE call = "pix::detect_type" -> pix_detect_type(arg)
      [] call = "pix::validate" -> pix_validate(arg)
      [] call = "pix::validate_with_type" -> pix_validate_with_type(arg)

\* C15: every call of detect_type, validate and validate_with_type returns
\* what it returns when run alone, whatever calls other threads made before
\* it or make during it, so two calls on the same key return the same
\* result; detect_type returns at most one type; and a pattern, once
\* initialized, holds its compiled value for good.
C15_Deterministic ==
    /\ \A t \in Threads :
           threads[t].pc = "done" =>
               /\ threads[t].result = Alone(threads[t].call, threads[t].arg)
               /\ threads[t].call = "pix::detect_type" =>
                      \/ threads[t].result = None
                      \/ \E tag \in {"Cpf", "Cnpj", "Email", "Phone", "Random"} :
                             threads[t].result = Some(tag)
               /\ \A u \in Threads :
                      (/\ threads[u].pc = "done"
                       /\ threads[u].call = threads[t].call
                       /\ threads[u].arg = threads[t].arg)
                          => threads[u].result = threads[t].result
    /\ \A n \in RegexNames :
           statics[n].state = "ready" => statics[n].value = Compile(n)

\* two threads whose calls overlapped have both validated the same key,
\* found at the fourth pattern of the chain
C15_Witness ==
    /\ \A t \in {1, 2} :
           /\ threads[t].pc = "done"
           /\ threads[t].overlapped
           /\ threads[t].call = "pix::validate_with_type"
           /\ threads[t].result.tag = "Ok"
           /\ threads[t].result.val[1] = "Phone"
    /\ threads[1].arg = threads[2].arg

\* the position of the '@' of an email-shaped key
AtSign(k) == CHOOSE i \in 1..Len(k) : k[i] = "@"

\* C19 as stated: on every email-shaped key pix::mask returns the first
\* character of the local part, "***", and "@" with the domain, whatever
\* the length of the local part.
C19_EmailMaskRevealsFirst ==
    LET k == Trimmed(input)
    IN  (op = "pix::mask" /\ EmailShape(k)) =>
            out = Returned(<<k[1], "*", "*", "*">>
                           \o SubSeq(k, AtSign(k), Len(k)))

\* C19 amended: on an email-shaped key whose local part has at least two
\* characters pix::mask returns the first character of the local part,
\* "***", and "@" with the domain; when the local part is a single
\* character it returns "***" and "@" with the domain, revealing nothing
\* of the local part.
C19_EmailMask ==
    LET k == Trimmed(input)
    IN  (op = "pix::mask" /\ EmailShape(k)) =>
            out = IF AtSign(k) > 2
                  THEN Returned(<<k[1], "*", "*", "*">>
                                \o SubSeq(k, AtSign(k), Len(k)))
                  ELSE Returned(<<"*", "*", "*">>
                                \o SubSeq(k, AtSign(k), Len(k)))

\* pix::mask hid the single character of an email key's local part
C19_Witness ==
    /\ op = "pix::mask"
    /\ EmailShape(Trimmed(input))
    /\ AtSign(Trimmed(input)) = 2
    /\ out.tag = "Returned"
    /\ SubSeq(out.val, 1, 4) = <<"*", "*", "*", "@">>

\* the key has none of the five shapes
Unrecognized(k) ==
    ~(CpfShape(k) \/ CnpjShape(k) \/ EmailShape(k) \/ PixPhoneShape(k)
      \/ RandomKeyShape(k))

\* C20 as stated: pix::mask(key) is cpf::mask(key) on a key tagged Cpf,
\* cnpj::mask(key) on one tagged Cnpj and phone::mask(key) on one tagged
\* Phone; an unrecognized key is returned trimmed.
C20_MaskDispatchesToEngines ==
    LET k == Trimmed(input)
    IN  op = "pix::mask" =>
            /\ CpfShape(k) => out = cpf_mask(input)
            /\ CnpjShape(k) => out = cnpj_mask(input)
            /\ PixPhoneShape(k) => out = phone_mask(input)
            /\ Unrecognized(k) => out = Returned(k)

\* C20 amended: pix::mask(key) is cpf::mask of the trimmed key on a key
\* tagged Cpf and cnpj::mask of the trimmed key on one tagged Cnpj; on a
\* key tagged Phone it is the dispatcher's own mask_phone of the trimmed
\* key, which for ASCII digits is "+55 (AA) *****-DDDD" and differs from
\* phone::mask(key); an unrecognized key is returned trimmed.
C20_MaskDispatch ==
    LET k == Trimmed(input)
    IN  op = "pix::mask" =>
            /\ CpfShape(k) => out = cpf_mask(k)
            /\ CnpjShape(k) => out = cnpj_mask(k)
            /\ PixPhoneShape(k) =>
                   /\ out = mask_phone(k)
                   /\ (\A i \in 4..14 : k[i] \in AsciiDigits) =>
                          /\ out = Returned(<<"+", "5", "5", " ", "(", k[4],
                                              k[5], ")", " ", "*", "*", "*",
                                              "*", "*", "-", k[11], k[12],
                                              k[13], k[14]>>)
                          /\ out # phone_mask(input)
            /\ Unrecognized(k) => out = Returned(k)

\* pix::mask masked a phone key, padded with white space, with the country
\* code that phone::mask leaves out
C20_Witness ==
    /\ op = "pix::mask"
    /\ PixPhoneShape(Trimmed(input))
    /\ input # Trimmed(input)
    /\ out.tag = "Returned"
    /\ SubSeq(out.val, 1, 5) = <<"+", "5", "5", " ", "(">>
    /\ phone_mask(input).val[1] = "("

\* C25: a key that matches the CPF recognizer normalizes to exactly 11
\* digits and one that matches the CNPJ recognizer to exactly 14, also
\* when it holds non-ASCII decimal digits; hence pix::validate and
\* pix::validate_with_type never return InvalidLength.
C25_MatchImpliesLength ==
    LET k == Trimmed(input)
    IN  op \in {"pix::validate", "pix::validate_with_type"} =>
            /\ CpfShape(k) => Len(cpf_normalize(k)) = 11
            /\ CnpjShape(k) => Len(cnpj_normalize(k)) = 14
            /\ out.tag \in {"Ok", "InvalidCpf", "InvalidCnpj",
                            "InvalidCheckDigits", "InvalidPixKey"}

\* every order in which the five recognizers can be consulted
Orderings ==
    {p \in [1..5 -> RegexNames] : \A i, j \in 1..5 : i # j => p[i] # p[j]}

\* C26: no key matches two of the five recognizers, in particular none is
\* both email-shaped and CPF-shaped, and detect_type returns the same tag
\* in whatever order the recognizers are consulted.
C26_RecognizersExclusive ==
    LET k == Trimmed(input)
        matching == {n \in RegexNames : is_match(Compile(n), Subject(n, k))}
    IN  /\ Cardinality(matching) <= 1
        /\ Cardinality({i \in 1..5 :
               <<CpfShape(k), CnpjShape(k), EmailShape(k), PixPhoneShape(k),
                 RandomKeyShape(k)>>[i]}) <= 1
        /\ op = "pix::detect_type" =>
               \A chain \in Orderings :
                   out = IF matching = {} THEN None
                         ELSE Some(TagOf(CHOOSE n \in matching :
                                  \A m \in matching :
                                      (CHOOSE i \in 1..5 : chain[i] = n)
                                          <= (CHOOSE i \in 1..5 : chain[i] = m)))

\* detect_type tagged Email a key that begins with the 11 digits of a CPF
C26_Witness ==
    /\ op = "pix::detect_type"
    /\ out = Some("Email")
    /\ Len(Trimmed(input)) > 11
    /\ CpfShape(SubSeq(Trimmed(input), 1, 11))
    /\ \A chain \in Orderings : DetectWith(chain, input) = out

\* C27: when validate_with_type accepts a key with the pair (t, v),
\* detect_type gives Some(t) on that key and pix::normalize gives v; when
\* detect_type names a type and validate_with_type rejects the key, the
\* type is Cpf or Cnpj and the rejection is the one of cpf::validate or
\* cnpj::validate.
C27_TypedAgreesWithDetectAndNormalize ==
    /\ (op = "pix::validate_with_type" /\ out.tag = "Ok") =>
           /\ pix_detect_type(input) = Some(out.val[1])
           /\ pix_normalize(input) = Returned(out.val[2])
    /\ (op = "pix::detect_type" /\ out.tag = "Some"
            /\ pix_validate_with_type(input).tag # "Ok") =>
           /\ out.val \in {"Cpf", "Cnpj"}
           /\ out.val = "Cpf" =>
                  pix_validate_with_type(input) = cpf_validate(Trimmed(input))
           /\ out.val = "Cnpj" =>
                  pix_validate_with_type(input) = cnpj_validate(Trimmed(input))

\* validate_with_type accepted a padded, punctuated CPF key
C27_Witness ==
    /\ op = "pix::validate_with_type"
    /\ out.tag = "Ok"
    /\ out.val[1] = "Cpf"
    /\ input # Trimmed(input)
    /\ out.val[2] # Trimmed(input)
    /\ pix_normalize(input) = Returned(out.val[2])

----------------------------------------------------------------------------
(* Properties of normalize, format and mask *)

\* the normalize function of the operation that was called
NormalizeOf(name, s) ==
    CASE name = "cpf::normalize" -> cpf_normalize(s)
      [] name = "cnpj::normalize" -> cnpj_normalize(s)
      [] name = "cep::normalize" -> cep_normalize(s)
      [] name = "phone::normalize" -> phone_normalize(s)
      [] name = "pix::normalize" -> pix_normalize(s).val

\* C16: normalize applied to its own result returns that result, for
\* cpf::normalize, cnpj::normalize, cep::normalize, phone::normalize and
\* pix::normalize, also when the result matches another recognizer than
\* the string did.
C16_NormalizeIdempotent ==
    op \in {"cpf::normalize", "cnpj::normalize", "cep::normalize",
            "phone::normalize", "pix::normalize"}
        => /\ out.tag = "Returned"
           /\ NormalizeOf(op, out.val) = out.val

\* pix::normalize turned a CNPJ-shaped key into a CPF-shaped string
C16_Witness ==
    /\ op = "pix::normalize"
    /\ CnpjShape(Trimmed(input))
    /\ CpfShape(out.val)
    /\ out.val # Trimmed(input)

\* C17: cpf::format, cnpj::format and cep::format return their argument
\* unchanged when it does not have 11, 14 and 8 ASCII digits, and
\* phone::format returns its argument unchanged when the national number
\* left after removing the country code does not have 10 or 11 characters.
C17_FormatIdentityOnMalformed ==
    LET d == AsciiDigitsOf(input)
    IN  /\ (op = "cpf::format" /\ Len(d) # 11) => out = Returned(input)
        /\ (op = "cnpj::format" /\ Len(d) # 14) => out = Returned(input)
        /\ (op = "cep::format" /\ Len(d) # 8) => out = Returned(input)
        /\ (/\ op = "phone::format"
            /\ Len(NationalNumber(phone_normalize(input))) \notin {10, 11})
               => out = Returned(input)

\* cpf::format returned a string of 12 digits and other characters as it
\* was
C17_Witness ==
    /\ op = "cpf::format"
    /\ Len(AsciiDigitsOf(input)) = 12
    /\ Len(input) > 12
    /\ out = Returned(input)

\* the digits d with those at the positions in hidden replaced by c
WithHidden(d, hidden, c) ==
    [i \in 1..Len(d) |-> IF i \in hidden THEN c ELSE d[i]]

C21_PlusOnlyLeading ==
    op = "phone::normalize" =>
        /\ out.tag = "Returned"
        /\ \A i \in 1..Len(out.val) :
               \/ out.val[i] \in AsciiDigits
               \/ i = 1 /\ out.val[i] = "+"

\* C22: cpf::validate, cnpj::validate and cep::validate never return
\* InvalidCharacters, whatever the input string.
C22_InvalidCharactersUnreachable ==
    op \in {"cpf::validate", "cnpj::validate", "cep::validate"}
        => out.tag # "InvalidCharacters"

\* cpf::validate reached its check digits on a string that holds a
\* non-ASCII digit and other characters besides 11 ASCII digits
C22_Witness ==
    /\ op = "cpf::validate"
    /\ \E i \in 1..Len(input) : input[i] = ArabicIndicThree
    /\ Len(AsciiDigitsOf(input)) = 11
    /\ out.tag \in {"Ok", "InvalidCheckDigits", "InvalidCpf"}

\* the operations of the module that was called, applied to a string
FormatOf(name, s) ==
    CASE name = "cpf::format" -> cpf_format(s)
      [] name = "cnpj::format" -> cnpj_format(s)
      [] name = "cep::format" -> cep_format(s)

NormalizeOfFormat(name, s) ==
    CASE name = "cpf::format" -> cpf_normalize(s)
      [] name = "cnpj::format" -> cnpj_normalize(s)
      [] name = "cep::format" -> cep_normalize(s)

ValidateOfFormat(name, s) ==
    CASE name = "cpf::format" -> cpf_validate(s)
      [] name = "cnpj::format" -> cnpj_validate(s)
      [] name = "cep::format" -> cep_validate(s)

\* the digits d written in a template, "#" standing for the next digit
InTemplate(tpl, d) ==
    [i \in 1..Len(tpl) |->
        IF tpl[i] = "#"
        THEN d[Cardinality({j \in 1..i : tpl[j] = "#"})]
        ELSE tpl[i]]

\* C23: on a string with exactly 11, 14 or 8 ASCII digits cpf::format,
\* cnpj::format and cep::format return those digits, in their order, in
\* the templates DDD.DDD.DDD-DD, DD.DDD.DDD/DDDD-DD and DDDDD-DDD; and on
\* every string normalize(format(s)) = normalize(s), format(format(s)) =
\* format(s) and validate(format(s)) = validate(s).
C23_FormatLaws ==
    LET d == AsciiDigitsOf(input)
    IN  /\ (op = "cpf::format" /\ Len(d) = 11) =>
               out = Returned(InTemplate(
                   <<"#", "#", "#", ".", "#", "#", "#", ".", "#", "#", "#",
                     "-", "#", "#">>, d))
        /\ (op = "cnpj::format" /\ Len(d) = 14) =>
               out = Returned(InTemplate(
                   <<"#", "#", ".", "#", "#", "#", ".", "#", "#", "#", "/",
                     "#", "#", "#", "#", "-", "#", "#">>, d))
        /\ (op = "cep::format" /\ Len(d) = 8) =>
               out = Returned(InTemplate(
                   <<"#", "#", "#", "#", "#", "-", "#", "#", "#">>, d))
        /\ op \in {"cpf::format", "cnpj::format", "cep::format"} =>
               /\ out.tag = "Returned"
               /\ NormalizeOfFormat(op, out.val) = NormalizeOfFormat(op, input)
               /\ FormatOf(op, out.val) = out
               /\ ValidateOfFormat(op, out.val) = ValidateOfFormat(op, input)

\* cnpj::format wrote the 14 digits of a string that holds other
\* characters too in the CNPJ template
C23_Witness ==
    /\ op = "cnpj::format"
    /\ Len(AsciiDigitsOf(input)) = 14
    /\ \E i \in 1..Len(input) : input[i] = DevanagariThree
    /\ out.tag = "Returned"
    /\ Len(out.val) = 18
    /\ out.val # input

----------------------------------------------------------------------------
(* Properties of the lazily initialized patterns *)

\* a pattern's cell changes only from uninitialized to being initialized
\* and from there to holding the compiled pattern
InitializedOnce ==
    \A n \in RegexNames :
        statics'[n] # statics[n] =>
            \/ /\ statics[n] = Uninitialized
               /\ statics'[n].state = "running"
            \/ /\ statics[n].state = "running"
               /\ statics'[n].state = "ready"
               /\ statics'[n].value = Compile(n)

\* a thread that has matched its key against a pattern found the pattern
\* initialized
MatchesInitialized ==
    \A t \in Threads :
        (/\ threads[t].pc = "running"
         /\ \/ threads'[t].pc = "done"
            \/ threads'[t].at # threads[t].at)
            => /\ statics[CurrentStatic(t)].state = "ready"
               /\ statics[CurrentStatic(t)].value = Compile(CurrentStatic(t))

\* every finished call that ran while another call was in progress
\* returned what it returns when run alone
OverlappedAnswersAsAlone ==
    \A t \in Threads :
        (threads[t].pc = "done" /\ threads[t].overlapped)
            => threads[t].result = Alone(threads[t].call, threads[t].arg)

\* C24: when threads make their first calls at the same time each pattern
\* is initialized exactly once, no call matches against a pattern that is
\* not initialized, an initialized pattern is never modified, and every
\* concurrent call returns what it returns when run alone.
C24_InitializedExactlyOnce ==
    /\ [][InitializedOnce /\ MatchesInitialized]_vars
    /\ []OverlappedAnswersAsAlone

\* two threads are in their first calls at the first pattern, which the
\* second thread is compiling while the first waits for it
C24_Witness ==
    /\ \A t \in {1, 2} : threads[t].pc = "running" /\ threads[t].at = 1
    /\ statics["CPF_REGEX"] = Initializing(2)
    /\ \A n \in RegexNames \ {"CPF_REGEX"} : statics[n] = Uninitialized

====
